---- MODULE Spec2Model ----
(***************************************************************************)
(* openbook-cli: market resolution, order-book acquisition, token symbol  *)
(* resolution and the known-market store, modelled from src/src/index.ts  *)
(* (the CLI entry point) and from its older duplicate src/unnamed/part_001.*)
(*                                                                         *)
(* Text is modelled as sequences of one-character strings, so that         *)
(* String.prototype.slice and Array.prototype.includes are computed.       *)
(* Error messages are sequences of words.                                  *)
(***************************************************************************)
EXTENDS Integers, Sequences, FiniteSets, TLC

VARIABLES
    variant,               \* which entry point runs: "index" (src/src/index.ts) or "dup" (part_001)
    args,                  \* process.argv.slice(2): [first |-> args[0] or <<>>, rest |-> the other arguments]
    chain,                 \* the account behind the market address, as the RPC node reports it
    files,                 \* the two persisted store files, by program
    KNOWN_MARKETS,         \* index.ts:82
    KNOWN_TOKEN_SYMBOLS,   \* index.ts:83
    pc,                    \* where main is
    useSerum,              \* main's useSerum (index.ts:756)
    detectedProgram,       \* main's detectedProgram (index.ts:757)
    detectFetch,           \* what the owner fetch of the detection returned ("none" before it)
    loads,                 \* the store files read by loadKnownMarketsFromFile in this invocation
    saves,                 \* the store files handed to writeFileSync in this invocation
    addLoad,               \* the add workflow's market load: "none", "ok" or "failed"
    atLoad,                \* the in-memory mappings as loadKnownMarketsFromFile left them
    atStart,               \* the store files when the invocation started
    report,                \* what the invocation printed: market info, order book, statistics
    outcome,               \* how main ended ("running" until then)
    frame,                 \* the locals of addMarketToKnownMarkets across its awaits
    call                   \* the last call that returned: of a function called directly, or
                           \* of main when the CLI is run once more; or the CLI process
                           \* that runs beside this one

vars == <<variant, args, chain, files, KNOWN_MARKETS, KNOWN_TOKEN_SYMBOLS, pc, useSerum,
          detectedProgram, detectFetch, loads, saves, addLoad, atLoad, atStart, report,
          outcome, frame, call>>

---------------------------------------------------------------------------
(* Bounds of the model.                                                    *)

MaxLevels == 2            \* levels a decoded queue holds in a direct call
MaxPrice == 2             \* prices are 1..MaxPrice
MaxDepth == 2             \* depths a direct caller asks for are 1..MaxDepth
MaxReportLevels == 1      \* levels a decoded queue holds during a CLI report

---------------------------------------------------------------------------
(* Program constants.                                                      *)

OPENBOOK_PROGRAM_ID == "srmqPvymJeFKQ4zGQed1GFppgkRHL9kaELCbyksJtPX"
SERUM_PROGRAM_ID == "9xQeWvG816bUx9EPjHmaT23yvVM2ZWbrrpZb9PusVFin"
SYSTEM_PROGRAM_ID == "11111111111111111111111111111111"

L2Depth == 20             \* bids.getL2(20), asks.getL2(20)
ReportDepth == 15         \* displayOrderBook(targetMarket, 15, useSerum)
StatsDepth == 1           \* getRealOrderBook(marketAddress, 1, useSerum)
SymbolLen == 8            \* mintAddress.slice(0, 8)
DefaultDecimals == 6      \* decimals: 6
PublicKeyLen == 32        \* characters of the shortest base-58 text of a 32-byte key
PublicKeyMaxLen == 44     \* characters of the longest one

Programs == {"OpenBook", "Serum"}

ProgramName(serum) == IF serum THEN "Serum" ELSE "OpenBook"

ProgramId(serum) == IF serum THEN SERUM_PROGRAM_ID ELSE OPENBOOK_PROGRAM_ID

---------------------------------------------------------------------------
(* Text.                                                                   *)

Min(a, b) == IF a < b THEN a ELSE b

\* String.prototype.slice(0, n) for n >= 0
Slice0(s, n) == SubSeq(s, 1, Min(Len(s), n))

\* Array.prototype.slice(0, n), the truncation getL2(n) ends with
Take(q, n) == SubSeq(q, 1, Min(Len(q), n))

Base58 ==
    {"1","2","3","4","5","6","7","8","9",
     "A","B","C","D","E","F","G","H","J","K","L","M","N","P","Q","R","S","T","U","V","W","X","Y","Z",
     "a","b","c","d","e","f","g","h","i","j","k","m","n","o","p","q","r","s","t","u","v","w","x","y","z"}

\* new PublicKey(address) accepts base-58 text that decodes to 32 bytes; the
\* model takes the text's alphabet and length for that.
IsPublicKey(address) ==
    /\ Len(address) >= PublicKeyLen
    /\ Len(address) <= PublicKeyMaxLen
    /\ \A i \in 1..Len(address) : address[i] \in Base58

\* A well-formed key that starts with the given characters.
KeyOf(prefix) == prefix \o [i \in 1..(PublicKeyLen - Len(prefix)) |-> "1"]

M1 == KeyOf(<<"M","k","t","1">>)                              \* the market address the user gives
MARKET_ADDRESS == KeyOf(<<"C","w","3","5">>)                  \* part_001:6, its default market
BaseMint == KeyOf(<<"S","o","1","B","a","s","e","M","i","n","t">>)   \* its base mint
QuoteMint == KeyOf(<<"E","P","j","Q","u","o","t","e">>)       \* its quote mint
BadKey == <<"b","a","d","0">>                                 \* no public key: "0" is not base 58
EmptyText == <<>>

USDC == <<"U","S","D","C">>
SOL == <<"S","O","L">>
UnknownToken == <<"U","n","k","n","o","w","n"," ","T","o","k","e","n">>

AddFlag == <<"-","-","a","d","d">>
AddShort == <<"-","a">>
ListFlag == <<"-","-","l","i","s","t">>
ListShort == <<"-","l">>
SerumFlag == <<"-","-","s","e","r","u","m">>
SerumShort == <<"-","s">>
HelpFlag == <<"-","-","h","e","l","p">>
HelpShort == <<"-","h">>
VersionFlag == <<"-","-","v","e","r","s","i","o","n">>
VersionShort == <<"-","v">>
UpdateFlag == <<"-","-","u","p","d","a","t","e">>

---------------------------------------------------------------------------
(* Objects used as maps.                                                   *)

EmptyMap == [k \in {} |-> EmptyText]

\* obj[key] is truthy, for an object of strings: the key is there and its value
\* is not the empty string
Truthy(obj, key) == key \in DOMAIN obj /\ obj[key] # EmptyText

\* The JSON value null, as an entry of an object of records.
NullEntry == [isNull |-> TRUE]

IsNull(value) == "isNull" \in DOMAIN value

\* obj[key] is truthy, for an object of records: the key is there and its
\* value is not null
Has(obj, key) == key \in DOMAIN obj /\ ~IsNull(obj[key])

\* obj[key] = value
Put(obj, key, value) == [k \in DOMAIN obj \cup {key} |-> IF k = key THEN value ELSE obj[k]]

---------------------------------------------------------------------------
(* Errors and network outcomes.                                            *)

Error(message) == [ok |-> FALSE, message |-> message]

InvalidPublicKeyFormat == <<"Invalid","public","key","format">>
AddressNotOwnedByProgram == <<"Address","not","owned","by","program">>
MarketAccountNotFound == <<"Market","account","not","found">>
MarketNotFound == <<"Market","not","found">>
InvalidMarket == <<"Invalid","market">>
FetchFailed == <<"fetch","failed">>
TokenAccountNotFound == <<"Token","account","not","found">>

\* message.includes(pattern), on words
Includes(message, pattern) ==
    \E i \in 0..(Len(message) - Len(pattern)) :
        SubSeq(message, i + 1, i + Len(pattern)) = pattern

\* What the library says when the market account is absent is not fixed by
\* this repository: either wording may arrive.
NotFoundMessages == {MarketNotFound, MarketAccountNotFound}

Request(op, key) == [op |-> op, key |-> key]

Owners == {OPENBOOK_PROGRAM_ID, SERUM_PROGRAM_ID, SYSTEM_PROGRAM_ID}

NoAccount == [exists |-> FALSE, owner |-> "", market |-> FALSE]

\* The account behind the market address: absent, or owned by some program
\* and holding either a market or something else.
Accounts ==
    {NoAccount, [exists |-> TRUE, owner |-> SYSTEM_PROGRAM_ID, market |-> FALSE]}
    \cup [exists : {TRUE}, owner : {OPENBOOK_PROGRAM_ID, SERUM_PROGRAM_ID}, market : BOOLEAN]

\* connection.getAccountInfo(address): the account, null, or a network error
AccountFetches == {"reply", "error"}

\* connection.getParsedAccountInfo(mint): a mint with its decimals, an account
\* that is no parsed mint, null, or a network error
MintFetches ==
    {[kind |-> "mint", decimals |-> 6], [kind |-> "mint", decimals |-> 9],
     [kind |-> "unparsed", decimals |-> 0], [kind |-> "null", decimals |-> 0],
     [kind |-> "error", decimals |-> 0]}

---------------------------------------------------------------------------
(* getTokenMetadata (index.ts:85-124).                                     *)

TokenFallback(mintAddress, requests) ==
    [raised |-> FALSE, symbol |-> Slice0(mintAddress, SymbolLen), name |-> UnknownToken,
     decimals |-> DefaultDecimals, requests |-> requests]

\* getTokenMetadata as it would be with the mint account fetched before the
\* cache is looked at.
getTokenMetadataFetchingFirst(mintAddress, symbols, fetch) ==
    IF ~IsPublicKey(mintAddress)
    THEN TokenFallback(mintAddress, <<>>)
    ELSE IF fetch.kind # "mint"
    THEN TokenFallback(mintAddress, <<Request("getParsedAccountInfo", mintAddress)>>)
    ELSE [raised |-> FALSE,
          symbol |-> IF Truthy(symbols, mintAddress) THEN symbols[mintAddress]
                     ELSE Slice0(mintAddress, SymbolLen),
          name |-> UnknownToken, decimals |-> fetch.decimals,
          requests |-> <<Request("getParsedAccountInfo", mintAddress)>>]

\* getTokenMetadata as it would be if it assumed 6 decimals in every branch.
getTokenMetadataAssumingDecimals(mintAddress, symbols, fetch) ==
    IF ~IsPublicKey(mintAddress)
    THEN TokenFallback(mintAddress, <<>>)
    ELSE IF Truthy(symbols, mintAddress)
    THEN [raised |-> FALSE, symbol |-> symbols[mintAddress], name |-> symbols[mintAddress],
          decimals |-> DefaultDecimals, requests |-> <<>>]
    ELSE TokenFallback(mintAddress, <<Request("getParsedAccountInfo", mintAddress)>>)

\* getTokenMetadata as it would be if the cache were looked at before the id
\* is parsed.
getTokenMetadataCacheFirst(mintAddress, symbols, fetch) ==
    IF Truthy(symbols, mintAddress)
    THEN [raised |-> FALSE, symbol |-> symbols[mintAddress], name |-> symbols[mintAddress],
          decimals |-> DefaultDecimals, requests |-> <<>>]
    ELSE IF ~IsPublicKey(mintAddress)
    THEN TokenFallback(mintAddress, <<>>)
    ELSE IF fetch.kind = "mint"
    THEN [raised |-> FALSE, symbol |-> Slice0(mintAddress, SymbolLen), name |-> UnknownToken,
          decimals |-> fetch.decimals,
          requests |-> <<Request("getParsedAccountInfo", mintAddress)>>]
    ELSE TokenFallback(mintAddress, <<Request("getParsedAccountInfo", mintAddress)>>)

getTokenMetadata(mintAddress, symbols, fetch) ==
    IF ~IsPublicKey(mintAddress)
    THEN TokenFallback(mintAddress, <<>>)                      \* createPublicKey throws
    ELSE IF Truthy(symbols, mintAddress)
    THEN [raised |-> FALSE, symbol |-> symbols[mintAddress], name |-> symbols[mintAddress],
          decimals |-> DefaultDecimals, requests |-> <<>>]
    ELSE IF fetch.kind = "mint"
    THEN [raised |-> FALSE, symbol |-> Slice0(mintAddress, SymbolLen), name |-> UnknownToken,
          decimals |-> fetch.decimals,
          requests |-> <<Request("getParsedAccountInfo", mintAddress)>>]
    ELSE TokenFallback(mintAddress, <<Request("getParsedAccountInfo", mintAddress)>>)

---------------------------------------------------------------------------
(* Market.load and loadOpenBookMarket (index.ts:211-246).                  *)

\* Market.load(connection, marketPubkey, {}, programId) of the decoding library
MarketLoad(address, programId, account, fetch, notFound) ==
    IF fetch = "error" THEN Error(FetchFailed)
    ELSE IF ~account.exists THEN Error(notFound)
    ELSE IF account.owner # programId THEN Error(AddressNotOwnedByProgram \o <<":", account.owner>>)
    ELSE IF ~account.market THEN Error(InvalidMarket)
    ELSE [ok |-> TRUE, baseMintAddress |-> BaseMint, quoteMintAddress |-> QuoteMint]

\* loadOpenBookMarket as it would be if it loaded the market whatever program
\* owns the account.
loadOpenBookMarketOfAnyOwner(marketAddress, serum, account, fetch, notFound) ==
    LET loaded == IF IsPublicKey(marketAddress)
                  THEN MarketLoad(marketAddress, account.owner, account, fetch, notFound)
                  ELSE Error(InvalidPublicKeyFormat)
        requests == IF IsPublicKey(marketAddress)
                    THEN <<Request("Market.load", marketAddress)>> ELSE <<>>
    IN  IF loaded.ok
        THEN [ok |-> TRUE, market |-> loaded, requests |-> requests]
        ELSE [ok |-> FALSE, requests |-> requests, message |-> loaded.message]

\* loadOpenBookMarket as it would be if a failed Market.load were tried once
\* more before the error is raised.
loadOpenBookMarketRetrying(marketAddress, serum, account, fetch, notFound) ==
    LET loaded == IF IsPublicKey(marketAddress)
                  THEN MarketLoad(marketAddress, ProgramId(serum), account, fetch, notFound)
                  ELSE Error(InvalidPublicKeyFormat)
        request == Request("Market.load", marketAddress)
    IN  IF loaded.ok
        THEN [ok |-> TRUE, market |-> loaded, requests |-> <<request>>]
        ELSE [ok |-> FALSE, message |-> loaded.message,
              requests |-> IF IsPublicKey(marketAddress) THEN <<request, request>> ELSE <<>>]

loadOpenBookMarket(marketAddress, serum, account, fetch, notFound) ==
    LET loaded == IF IsPublicKey(marketAddress)
                  THEN MarketLoad(marketAddress, ProgramId(serum), account, fetch, notFound)
                  ELSE Error(InvalidPublicKeyFormat)
        requests == IF IsPublicKey(marketAddress)
                    THEN <<Request("Market.load", marketAddress)>> ELSE <<>>
    IN  IF loaded.ok
        THEN [ok |-> TRUE, market |-> loaded, requests |-> requests]
        ELSE [ok |-> FALSE, requests |-> requests,
              message |->
                  IF Includes(loaded.message, AddressNotOwnedByProgram)
                  THEN <<"Market","not","owned","by", ProgramName(serum), "program">>
                  ELSE IF Includes(loaded.message, MarketAccountNotFound)
                  THEN MarketAccountNotFound
                  ELSE <<"Failed","to","load", ProgramName(serum), "market", ":">>
                       \o loaded.message]

---------------------------------------------------------------------------
(* The order book reader (index.ts:248-297) and getMarketStats (316-345).  *)

\* (price, size) pairs: every price with size 1, and the lowest price also with size 2
Levels == ((1..MaxPrice) \X {1}) \cup {<<1, 2>>}

SeqsUpTo(S, n) == UNION {[1..k -> S] : k \in 0..n}

\* What a slab yields to getL2: (price, size) pairs, in its own order.
Queues(n) == SeqsUpTo(Levels, n)

\* market.loadBids / market.loadAsks: a slab, or a network error
QueueFetches(n) == {[failed |-> TRUE, levels |-> <<>>]} \cup [failed : {FALSE}, levels : Queues(n)]

\* slab.getL2(depth)
getL2(slab, depth) == Take(slab.levels, depth)

\* The mapping as it would be if every level were tagged as a bid.
OrderBookLevelsAllBids(l2, side) ==
    [i \in 1..Len(l2) |-> [price |-> l2[i][1], size |-> l2[i][2], side |-> "bid"]]

OrderBookLevels(l2, side) ==
    [i \in 1..Len(l2) |-> [price |-> l2[i][1], size |-> l2[i][2], side |-> side]]

getRealOrderBook(marketAddress, depth, serum, account, fetch, notFound, bids, asks) ==
    LET loaded == loadOpenBookMarket(marketAddress, serum, account, fetch, notFound)
    IN  IF ~loaded.ok
        THEN [ok |-> FALSE, message |-> loaded.message, requests |-> loaded.requests]
        ELSE IF bids.failed
        THEN [ok |-> FALSE, message |-> FetchFailed,
              requests |-> loaded.requests \o <<Request("loadBids", marketAddress)>>]
        ELSE IF asks.failed
        THEN [ok |-> FALSE, message |-> FetchFailed,
              requests |-> loaded.requests \o <<Request("loadBids", marketAddress),
                                                Request("loadAsks", marketAddress)>>]
        ELSE [ok |-> TRUE,
              bids |-> OrderBookLevels(getL2(bids, L2Depth), "bid"),
              asks |-> OrderBookLevels(getL2(asks, L2Depth), "ask"),
              requests |-> loaded.requests \o <<Request("loadBids", marketAddress),
                                                Request("loadAsks", marketAddress)>>]

\* A number or null.
Null == [isNull |-> TRUE, value |-> 0]

Num(n) == [isNull |-> FALSE, value |-> n]

\* a && b for numbers or null: 0 and null are falsy
Both(a, b) == ~a.isNull /\ a.value # 0 /\ ~b.isNull /\ b.value # 0

\* The statistics of index.ts:327-331 and 387-390; the percentage is kept as
\* the fraction (spread * 100) / bestBid.
Stats(bids, asks) ==
    LET bestBid == IF Len(bids) > 0 THEN Num(bids[1].price) ELSE Null
        bestAsk == IF Len(asks) > 0 THEN Num(asks[1].price) ELSE Null
        spread == IF Both(bestBid, bestAsk) THEN Num(bestAsk.value - bestBid.value) ELSE Null
    IN  [totalBids |-> Len(bids), totalAsks |-> Len(asks),
         bestBid |-> bestBid, bestAsk |-> bestAsk, spread |-> spread,
         spreadPercentage |->
             IF Both(spread, bestBid)
             THEN [isNull |-> FALSE, value |-> spread.value * 100, per |-> bestBid.value]
             ELSE [isNull |-> TRUE, value |-> 0, per |-> 1]]

getMarketStats(marketAddress, serum, account, fetch, notFound, bids, asks) ==
    LET book == getRealOrderBook(marketAddress, StatsDepth, serum, account, fetch, notFound,
                                 bids, asks)
    IN  IF ~book.ok THEN book
        ELSE [ok |-> TRUE, stats |-> Stats(book.bids, book.asks), bids |-> book.bids,
              asks |-> book.asks, requests |-> book.requests]

---------------------------------------------------------------------------
(* What displayOrderBook prints of the statistics (index.ts:392-398).      *)

Digit(d) == <<"0","1","2","3","4","5","6","7","8","9">>[d + 1]

RECURSIVE Decimal(_)
\* The decimal digits of a natural number.
Decimal(n) == IF n < 10 THEN <<Digit(n)>> ELSE Decimal(n \div 10) \o <<Digit(n % 10)>>

RECURSIVE Padded(_, _)
\* The last w decimal digits of a natural number, zeros included.
Padded(n, w) == IF w = 0 THEN <<>> ELSE Padded(n \div 10, w - 1) \o <<Digit(n % 10)>>

RECURSIVE Pow10(_)
Pow10(d) == IF d = 0 THEN 1 ELSE 10 * Pow10(d - 1)

\* Number.prototype.toFixed(digits) of the number num / den (den > 0): the
\* nearest decimal of that many fraction digits, with the sign of the number.
toFixed(num, den, digits) ==
    LET abs == IF num < 0 THEN 0 - num ELSE num
        scaled == (2 * abs * Pow10(digits) + den) \div (2 * den)
    IN  (IF num < 0 THEN <<"-">> ELSE <<>>)
        \o Decimal(scaled \div Pow10(digits)) \o <<".">> \o Padded(scaled % Pow10(digits), digits)

NA == <<"N","/","A">>

\* x?.toFixed(digits) || 'N/A', for a number or null
Shown(x, den, digits) == IF x.isNull THEN NA ELSE toFixed(x.value, den, digits)

StatsShown(stats) ==
    [totalBids |-> Decimal(stats.totalBids),
     totalAsks |-> Decimal(stats.totalAsks),
     bestBid |-> Shown(stats.bestBid, 1, 4),
     bestAsk |-> Shown(stats.bestAsk, 1, 4),
     spread |-> Shown(stats.spread, 1, 4),
     spreadPercentage |-> Shown(stats.spreadPercentage, stats.spreadPercentage.per, 2)
                          \o <<"%">>]

\* asks.slice().reverse()
Reverse(q) == [i \in 1..Len(q) |-> q[Len(q) + 1 - i]]

\* What displayOrderBook prints of a book it read (index.ts:363-398), or the
\* message of its catch block (400-406).
PrintedBook(book) ==
    IF book.ok
    THEN [ok |-> TRUE, asksShown |-> Reverse(book.asks), bidsShown |-> book.bids,
          stats |-> Stats(book.bids, book.asks),
          statsShown |-> StatsShown(Stats(book.bids, book.asks))]
    ELSE [ok |-> FALSE, message |-> book.message]

---------------------------------------------------------------------------
(* Market descriptors and getMarketInfo (index.ts:126-178).                *)

DefaultMinOrderSize == 1
DefaultPriceTick == <<"0",".","0","0","0","1">>
DefaultEventQueueLength == 2978
DefaultRequestQueueLength == 63
DefaultBidsLength == 909
DefaultAsksLength == 909

\* `${base}/${quote}`
PairName(base, quote) == base \o <<"/">> \o quote

\* A record of the store's markets mapping.
StoredMarket(name, baseMint, quoteMint, queueLength) ==
    [name |-> name, baseMint |-> baseMint, quoteMint |-> quoteMint,
     minOrderSize |-> DefaultMinOrderSize, priceTick |-> DefaultPriceTick,
     eventQueueLength |-> queueLength, requestQueueLength |-> DefaultRequestQueueLength,
     bidsLength |-> DefaultBidsLength, asksLength |-> DefaultAsksLength]

\* getMarketInfo as it would be if it decoded the market from the chain
\* whatever the store holds.
getMarketInfoDecoding(marketAddress, serum, markets, symbols, account, fetch, notFound, baseFetch, quoteFetch) ==
    LET loaded == loadOpenBookMarket(marketAddress, serum, account, fetch, notFound)
    IN  IF ~loaded.ok
        THEN [ok |-> FALSE, message |-> loaded.message, requests |-> loaded.requests]
        ELSE LET baseMetadata ==
                     getTokenMetadata(loaded.market.baseMintAddress, symbols, baseFetch)
                 quoteMetadata ==
                     getTokenMetadata(loaded.market.quoteMintAddress, symbols, quoteFetch)
             IN  [ok |-> TRUE,
                  info |-> [address |-> marketAddress,
                            baseMint |-> loaded.market.baseMintAddress,
                            quoteMint |-> loaded.market.quoteMintAddress,
                            baseSymbol |-> baseMetadata.symbol,
                            quoteSymbol |-> quoteMetadata.symbol,
                            minOrderSize |-> DefaultMinOrderSize,
                            priceTick |-> DefaultPriceTick,
                            eventQueueLength |-> DefaultEventQueueLength,
                            requestQueueLength |-> DefaultRequestQueueLength,
                            bidsLength |-> DefaultBidsLength,
                            asksLength |-> DefaultAsksLength],
                  requests |-> loaded.requests \o baseMetadata.requests
                               \o quoteMetadata.requests]

getMarketInfo(marketAddress, serum, markets, symbols, account, fetch, notFound, baseFetch, quoteFetch) ==
    IF Has(markets, marketAddress)
    THEN LET marketData == markets[marketAddress]
             baseMetadata == getTokenMetadata(marketData.baseMint, symbols, baseFetch)
             quoteMetadata == getTokenMetadata(marketData.quoteMint, symbols, quoteFetch)
         IN  [ok |-> TRUE,
              info |-> [address |-> marketAddress,
                        baseMint |-> marketData.baseMint, quoteMint |-> marketData.quoteMint,
                        baseSymbol |-> baseMetadata.symbol, quoteSymbol |-> quoteMetadata.symbol,
                        minOrderSize |-> marketData.minOrderSize,
                        priceTick |-> marketData.priceTick,
                        eventQueueLength |-> marketData.eventQueueLength,
                        requestQueueLength |-> marketData.requestQueueLength,
                        bidsLength |-> marketData.bidsLength,
                        asksLength |-> marketData.asksLength],
              requests |-> baseMetadata.requests \o quoteMetadata.requests]
    ELSE LET loaded == loadOpenBookMarket(marketAddress, serum, account, fetch, notFound)
         IN  IF ~loaded.ok
             THEN [ok |-> FALSE, message |-> loaded.message, requests |-> loaded.requests]
             ELSE LET baseMetadata ==
                          getTokenMetadata(loaded.market.baseMintAddress, symbols, baseFetch)
                      quoteMetadata ==
                          getTokenMetadata(loaded.market.quoteMintAddress, symbols, quoteFetch)
                  IN  [ok |-> TRUE,
                       info |-> [address |-> marketAddress,
                                 baseMint |-> loaded.market.baseMintAddress,
                                 quoteMint |-> loaded.market.quoteMintAddress,
                                 baseSymbol |-> baseMetadata.symbol,
                                 quoteSymbol |-> quoteMetadata.symbol,
                                 minOrderSize |-> DefaultMinOrderSize,
                                 priceTick |-> DefaultPriceTick,
                                 eventQueueLength |-> DefaultEventQueueLength,
                                 requestQueueLength |-> DefaultRequestQueueLength,
                                 bidsLength |-> DefaultBidsLength,
                                 asksLength |-> DefaultAsksLength],
                       requests |-> loaded.requests \o baseMetadata.requests
                                    \o quoteMetadata.requests]

---------------------------------------------------------------------------
(* Ownership checks (index.ts:39-53, 180-209).                             *)

\* The network requests of isValidMarket and of getMarketAccounts: after
\* createPublicKey, one connection.getAccountInfo (index.ts:41-42, 182-183)
ownerRequests(marketAddress) ==
    IF IsPublicKey(marketAddress) THEN <<Request("getAccountInfo", marketAddress)>> ELSE <<>>

isValidMarket(marketAddress, serum, account, fetch) ==
    /\ IsPublicKey(marketAddress)
    /\ fetch = "reply"
    /\ account.exists
    /\ account.owner = ProgramId(serum)

getMarketAccounts(marketAddress, serum, account, fetch) ==
    IF ~IsPublicKey(marketAddress) THEN Error(InvalidPublicKeyFormat)
    ELSE IF fetch = "error" THEN Error(FetchFailed)
    ELSE IF ~account.exists THEN Error(MarketAccountNotFound)
    ELSE IF account.owner # ProgramId(serum)
    THEN Error(<<"Market","not","owned","by", ProgramName(serum), "program", ".", "Owner", ":",
                 account.owner>>)
    ELSE [ok |-> TRUE, account |-> account]

\* getOrderBook as it would be without the ownership check.
getOrderBookUnverified(marketAddress, depth, account, ownerFetch, fetch, notFound, bids, asks) ==
    getRealOrderBook(marketAddress, depth, FALSE, account, fetch, notFound, bids, asks)

\* getOrderBook (index.ts:299-314): getMarketAccounts(marketAddress), then
\* getRealOrderBook(marketAddress, depth), both for OpenBook (useSerum is left
\* to its default); what either throws is logged and rethrown.
getOrderBook(marketAddress, depth, account, ownerFetch, fetch, notFound, bids, asks) ==
    LET verified == getMarketAccounts(marketAddress, FALSE, account, ownerFetch)
        book == getRealOrderBook(marketAddress, depth, FALSE, account, fetch, notFound, bids,
                                 asks)
    IN  IF ~verified.ok
        THEN [ok |-> FALSE, message |-> verified.message,
              requests |-> ownerRequests(marketAddress)]
        ELSE [book EXCEPT !.requests = ownerRequests(marketAddress) \o @]

---------------------------------------------------------------------------
(* The store files (index.ts:520-575).                                     *)

\* A store file: missing, not JSON, or JSON whose markets and symbols members
\* may each be absent.
StoreFile(kind, markets, symbols) == [kind |-> kind, markets |-> markets, symbols |-> symbols]

MissingFile == StoreFile("missing", EmptyMap, EmptyMap)       \* existsSync is false
UnreadableFile == StoreFile("unreadable", EmptyMap, EmptyMap) \* readFileSync throws
CorruptFile == StoreFile("corrupt", EmptyMap, EmptyMap)       \* JSON.parse throws
NullFile == StoreFile("null", EmptyMap, EmptyMap)             \* the JSON text null: data.markets throws
EmptyStore == StoreFile("json", EmptyMap, EmptyMap)

\* JSON with a symbols member and no markets member.
SymbolsOnlyFile == StoreFile("symbols only", EmptyMap, (QuoteMint :> SOL))

\* A store as an earlier add of M1 wrote it (with one queue length edited).
KnownStore ==
    StoreFile("json",
              (M1 :> StoredMarket(PairName(USDC, SOL), BaseMint, QuoteMint, 11)),
              (BaseMint :> USDC) @@ (QuoteMint :> SOL))

\* A hand-edited store: mints that are no public keys, an empty symbol.
OddStore ==
    StoreFile("json",
              (M1 :> StoredMarket(PairName(USDC, EmptyText), BadKey, EmptyText,
                                  DefaultEventQueueLength)),
              (BadKey :> USDC) @@ (BaseMint :> EmptyText))

\* A store one of whose markets is null.
NullEntryStore == StoreFile("json", (MARKET_ADDRESS :> NullEntry), EmptyMap)

\* The text of a store of two markets with a syntax error in it: the entries
\* are in the file, and JSON.parse throws.
DamagedStore ==
    StoreFile("corrupt", Put(KnownStore.markets, MARKET_ADDRESS, KnownStore.markets[M1]),
              KnownStore.symbols)

StoreFiles ==
    {MissingFile, UnreadableFile, CorruptFile, NullFile, EmptyStore, SymbolsOnlyFile, KnownStore,
     OddStore, NullEntryStore, DamagedStore}

\* The kinds of file JSON.parse returns an object for.
ParsedKinds == {"json", "symbols only"}

\* loadKnownMarketsFromFile: what KNOWN_MARKETS and KNOWN_TOKEN_SYMBOLS become.
\* Of a parsed object each member is taken as it is, an absent one as {}
\* (data.markets || {}); every other file ends in the else or the catch branch.
loadKnownMarketsFromFile(file) ==
    IF file.kind \in ParsedKinds
    THEN [markets |-> file.markets, symbols |-> file.symbols]
    ELSE [markets |-> EmptyMap, symbols |-> EmptyMap]

\* fs.writeFileSync(filePath, text) opens the file with the flag 'w', which
\* truncates it, and then writes: it succeeds, or it throws before the file is
\* opened (no permission, no directory), or it throws after the truncation
\* (disk full, I/O error).
Writes == {"written", "refused", "truncated"}

\* saveKnownMarketsToFile: the file after writeFileSync; what writeFileSync
\* throws is caught and printed (index.ts:537-539). A file cut short parses no
\* more.
saveKnownMarketsToFile(file, markets, symbols, write) ==
    IF write = "written" THEN StoreFile("json", markets, symbols)
    ELSE IF write = "refused" THEN file
    ELSE CorruptFile

---------------------------------------------------------------------------
(* The add workflow's mutation (index.ts:477-500).                         *)

\* if (!KNOWN_TOKEN_SYMBOLS[mint]) KNOWN_TOKEN_SYMBOLS[mint] = symbol
putSymbolIfAbsent(symbols, mint, symbol) ==
    IF ~Truthy(symbols, mint) THEN Put(symbols, mint, symbol) ELSE symbols

addedMarkets(markets, marketAddress, market, baseMetadata, quoteMetadata) ==
    Put(markets, marketAddress,
        StoredMarket(PairName(baseMetadata.symbol, quoteMetadata.symbol),
                     market.baseMintAddress, market.quoteMintAddress,
                     DefaultEventQueueLength))

addedSymbols(symbols, market, baseMetadata, quoteMetadata) ==
    putSymbolIfAbsent(putSymbolIfAbsent(symbols, market.baseMintAddress, baseMetadata.symbol),
                      market.quoteMintAddress, quoteMetadata.symbol)

---------------------------------------------------------------------------
(* The command line.                                                       *)

\* args.includes(long) || args.includes(short)
HasArg(a, long, short) == a.first \in {long, short} \/ long \in a.rest \/ short \in a.rest

Firsts == {EmptyText, M1, BadKey, ListFlag, AddShort, HelpFlag, VersionShort, UpdateFlag}

Rests == SUBSET {AddFlag, ListShort, SerumFlag}

ArgLists == {a \in [first : Firsts, rest : Rests] : a.first = EmptyText => a.rest = {}}

\* const targetMarket = args[0] (index.ts:750), args[0] || MARKET_ADDRESS (part_001:534)
TargetMarket(v, a) == IF v = "dup" /\ a.first = EmptyText THEN MARKET_ADDRESS ELSE a.first

\* shouldAdd && args[0] && args[0] is none of --add, -a, --serum, -s (index.ts:809-812)
WantsAdd(a) ==
    /\ HasArg(a, AddFlag, AddShort)
    /\ a.first # EmptyText
    /\ a.first \notin {AddFlag, AddShort, SerumFlag, SerumShort}

\* The detection as it would be if an unknown owner or a missing account fell
\* through to the flag's program.
detectProgramDefaulting(v, fetch, account, flagSerum) ==
    IF fetch = "reply" /\ account.exists /\ account.owner = SERUM_PROGRAM_ID
    THEN [returns |-> FALSE, outcome |-> "running", useSerum |-> TRUE]
    ELSE IF fetch = "reply" /\ account.exists /\ account.owner = OPENBOOK_PROGRAM_ID
    THEN [returns |-> FALSE, outcome |-> "running", useSerum |-> FALSE]
    ELSE [returns |-> FALSE, outcome |-> "running", useSerum |-> flagSerum]

\* The detection as it would be if --serum forced the program.
detectProgramForced(v, fetch, account, flagSerum) ==
    IF fetch = "error"
    THEN [returns |-> FALSE, outcome |-> "running", useSerum |-> flagSerum]
    ELSE IF ~account.exists
    THEN [returns |-> v = "index", outcome |-> "account not found", useSerum |-> flagSerum]
    ELSE IF account.owner \in {SERUM_PROGRAM_ID, OPENBOOK_PROGRAM_ID}
    THEN [returns |-> FALSE, outcome |-> "running",
          useSerum |-> flagSerum \/ account.owner = SERUM_PROGRAM_ID]
    ELSE [returns |-> v = "index", outcome |-> "not a valid market", useSerum |-> flagSerum]

\* The program detection of main (index.ts:760-798, part_001:544-563), once the
\* owner fetch has returned: whether main returns there, and the identity it
\* goes on with.
detectProgram(v, fetch, account, flagSerum) ==
    IF fetch = "error"
    THEN [returns |-> FALSE, outcome |-> "running", useSerum |-> flagSerum]
    ELSE IF ~account.exists
    THEN [returns |-> v = "index", outcome |-> "account not found", useSerum |-> flagSerum]
    ELSE IF account.owner = SERUM_PROGRAM_ID
    THEN [returns |-> FALSE, outcome |-> "running", useSerum |-> TRUE]
    ELSE IF account.owner = OPENBOOK_PROGRAM_ID
    THEN [returns |-> FALSE, outcome |-> "running", useSerum |-> FALSE]
    ELSE [returns |-> v = "index", outcome |-> "not a valid market", useSerum |-> flagSerum]

---------------------------------------------------------------------------
(* State.                                                                  *)

NoFrame == [market |-> [ok |-> FALSE], baseMetadata |-> [raised |-> FALSE],
            quoteMetadata |-> [raised |-> FALSE]]

NoReport == [name |-> EmptyText, info |-> [ok |-> FALSE, message |-> <<>>], shown |-> {}]

NoCall == [fn |-> "none"]

NotFetched == [failed |-> TRUE, levels |-> <<>>]

\* The two store files: any contents of one beside a missing other, or the same
\* contents in both.
StorePairs ==
    {f \in [Programs -> StoreFiles] :
        f["OpenBook"] = MissingFile \/ f["Serum"] = MissingFile \/ f["OpenBook"] = f["Serum"]}

Idle ==
    /\ KNOWN_MARKETS = EmptyMap
    /\ KNOWN_TOKEN_SYMBOLS = EmptyMap
    /\ useSerum = FALSE
    /\ detectedProgram = "OpenBook"
    /\ detectFetch = "none"
    /\ loads = <<>>
    /\ saves = <<>>
    /\ addLoad = "none"
    /\ atLoad = [markets |-> EmptyMap, symbols |-> EmptyMap]
    /\ report = NoReport
    /\ outcome = "running"
    /\ frame = NoFrame
    /\ call = NoCall

\* An invocation of the CLI of src/src/index.ts.
Init ==
    /\ pc = "start"
    /\ variant = "index"
    /\ args \in ArgLists
    /\ chain \in Accounts
    /\ files \in StorePairs
    /\ atStart = files
    /\ Idle

\* An invocation of the duplicate entry point, part_001.
InitDup ==
    /\ pc = "start"
    /\ variant = "dup"
    /\ args \in ArgLists
    /\ chain \in Accounts
    /\ files \in StorePairs
    /\ atStart = files
    /\ Idle

Finish(how) == pc' = "done" /\ outcome' = how

\* The ways main returns: after printing what was asked for, or after
\* reporting a failure from one of its catch blocks or checks.
Returns ==
    {"help", "version", "update", "address required", "invalid public key",
     "account not found", "not a valid market", "list", "list failed", "added", "add failed",
     "report"}

\* The wrapper's main().catch(... process.exit(1)) (part_000:5-9): the exit
\* code of the process, given how main ended.
ExitCode(how) == IF how \in Returns THEN 0 ELSE 1

\* What the library may say of a market account that is absent.
NotFoundSaid == IF chain.exists THEN {MarketNotFound} ELSE NotFoundMessages

---------------------------------------------------------------------------
(* main (index.ts:578-888, part_001:506-620), one action per stretch       *)
(* between two awaits.                                                     *)

\* The first stretch of main (index.ts:578-762, part_001:506-546): where it
\* goes next, how it ends if it ends there, and whether it got as far as
\* reading the --serum flag.
Entry(v, a) ==
    IF HasArg(a, HelpFlag, HelpShort)
    THEN [next |-> "done", outcome |-> "help", identified |-> FALSE]
    ELSE IF v = "index" /\ HasArg(a, VersionFlag, VersionShort)
    THEN [next |-> "done", outcome |-> "version", identified |-> FALSE]
    ELSE IF v = "index" /\ HasArg(a, UpdateFlag, UpdateFlag)
    THEN [next |-> "done", outcome |-> "update", identified |-> FALSE]
    ELSE IF v = "index" /\ a.first = EmptyText
    THEN [next |-> "done", outcome |-> "address required", identified |-> FALSE]
    ELSE IF a.first # EmptyText /\ ~HasArg(a, ListFlag, ListShort)
    THEN IF IsPublicKey(a.first)
         THEN [next |-> "detect", outcome |-> "running", identified |-> TRUE]
         ELSE IF v = "index"
         THEN [next |-> "done", outcome |-> "invalid public key", identified |-> TRUE]
         ELSE [next |-> "load", outcome |-> "running", identified |-> TRUE]
    ELSE [next |-> "load", outcome |-> "running", identified |-> TRUE]

\* From the start of main to the owner fetch of the detection.
Start ==
    /\ pc = "start"
    /\ LET entry == Entry(variant, args)
       IN  /\ pc' = entry.next
           /\ outcome' = entry.outcome
           /\ IF entry.identified
              THEN /\ useSerum' = HasArg(args, SerumFlag, SerumShort)
                   /\ detectedProgram' = ProgramName(useSerum')
              ELSE UNCHANGED <<useSerum, detectedProgram>>
    /\ UNCHANGED <<variant, args, chain, files, KNOWN_MARKETS, KNOWN_TOKEN_SYMBOLS, detectFetch,
                   loads, saves, addLoad, atLoad, atStart, report, frame, call>>

\* The owner fetch returns (index.ts:763-797).
Detect ==
    /\ pc = "detect"
    /\ \E fetch \in AccountFetches :
        LET d == detectProgram(variant, fetch, chain, useSerum)
        IN  /\ detectFetch' = IF fetch = "error" THEN "error"
                              ELSE IF chain.exists THEN chain.owner ELSE "null"
            /\ useSerum' = d.useSerum
            /\ detectedProgram' = ProgramName(d.useSerum)
            /\ IF d.returns THEN Finish(d.outcome) ELSE pc' = "load" /\ UNCHANGED outcome
    /\ UNCHANGED <<variant, args, chain, files, KNOWN_MARKETS, KNOWN_TOKEN_SYMBOLS, loads, saves,
                   addLoad, atLoad, atStart, report, frame, call>>

\* The dispatch as it would be with the add checked before the listing.
DispatchAddFirst(v, a) ==
    IF WantsAdd(a) THEN "add"
    ELSE IF HasArg(a, ListFlag, ListShort) THEN "list"
    ELSE IF v = "index" THEN "validate"
    ELSE "info name"

\* What main does after loading the store (index.ts:803-840, part_001:572-590)
Dispatch(v, a) ==
    IF HasArg(a, ListFlag, ListShort) THEN "list"
    ELSE IF WantsAdd(a) THEN "add"
    ELSE IF v = "index" THEN "validate"
    ELSE "info name"

\* loadKnownMarketsFromFile(useSerum) and the dispatch after it (index.ts:800-812).
Load ==
    /\ pc = "load"
    /\ LET loaded == loadKnownMarketsFromFile(files[ProgramName(useSerum)])
       IN  /\ KNOWN_MARKETS' = loaded.markets
           /\ KNOWN_TOKEN_SYMBOLS' = loaded.symbols
           /\ atLoad' = loaded
    /\ loads' = Append(loads, ProgramName(useSerum))
    /\ pc' = Dispatch(variant, args)
    /\ UNCHANGED <<variant, args, chain, files, useSerum, detectedProgram, detectFetch, saves,
                   addLoad, atStart, report, outcome, frame, call>>

\* Object.entries(KNOWN_MARKETS).forEach(... market.name ...) (index.ts:460-462,
\* 509-511) runs to its end: reading the name of a null entry throws.
PrintsAll(markets) == \A address \in DOMAIN markets : ~IsNull(markets[address])

\* listKnownMarkets(useSerum) (index.ts:455-463, 803-806); what it throws is
\* caught and printed by main (881-887)
List ==
    /\ pc = "list"
    /\ IF PrintsAll(KNOWN_MARKETS)
       THEN report' = [report EXCEPT !.shown = DOMAIN KNOWN_MARKETS] /\ Finish("list")
       ELSE UNCHANGED report /\ Finish("list failed")
    /\ UNCHANGED <<variant, args, chain, files, KNOWN_MARKETS, KNOWN_TOKEN_SYMBOLS, useSerum,
                   detectedProgram, detectFetch, loads, saves, addLoad, atLoad, atStart, frame,
                   call>>

\* A failed load as it would be if addMarketToKnownMarkets swallowed the error:
\* main would go on to save.
AddLoadFailedThenSaves ==
    /\ addLoad' = "failed"
    /\ pc' = "save"
    /\ UNCHANGED <<outcome, frame>>

\* A failed load as it would be if main had no catch around the add: the error
\* would leave main.
AddLoadFailedRejects ==
    /\ addLoad' = "failed"
    /\ Finish("rejected")
    /\ UNCHANGED frame

\* The market load of the add workflow failed: addMarketToKnownMarkets rethrows
\* (index.ts:513-516) and main reports and returns (822-834; part_001:614-619).
AddLoadFailed ==
    /\ addLoad' = "failed"
    /\ Finish("add failed")
    /\ UNCHANGED frame

\* addMarketToKnownMarkets up to the market load (index.ts:466-471); a failed
\* load is rethrown (513-516) and ends main (822-834; part_001:614-619).
AddLoadMarket ==
    /\ pc = "add"
    /\ \E fetch \in AccountFetches, notFound \in NotFoundSaid :
        LET loaded == loadOpenBookMarket(TargetMarket(variant, args), useSerum, chain, fetch,
                                         notFound)
        IN  IF loaded.ok
            THEN /\ frame' = [frame EXCEPT !.market = loaded.market]
                 /\ addLoad' = "ok"
                 /\ pc' = "add base"
                 /\ UNCHANGED outcome
            ELSE AddLoadFailed
    /\ UNCHANGED <<variant, args, chain, files, KNOWN_MARKETS, KNOWN_TOKEN_SYMBOLS, useSerum,
                   detectedProgram, detectFetch, loads, saves, atLoad, atStart, report, call>>

\* const baseMetadata = await getTokenMetadata(...) (index.ts:474)
AddBaseMetadata ==
    /\ pc = "add base"
    /\ \E fetch \in MintFetches :
        frame' = [frame EXCEPT !.baseMetadata =
                      getTokenMetadata(frame.market.baseMintAddress, KNOWN_TOKEN_SYMBOLS, fetch)]
    /\ pc' = "add quote"
    /\ UNCHANGED <<variant, args, chain, files, KNOWN_MARKETS, KNOWN_TOKEN_SYMBOLS, useSerum,
                   detectedProgram, detectFetch, loads, saves, addLoad, atLoad, atStart, report,
                   outcome, call>>

\* const quoteMetadata = await getTokenMetadata(...) and the rest of
\* addMarketToKnownMarkets (index.ts:475-511): the mutation, then the printing
\* of the updated markets, whose error is rethrown (513-516) and ends main
\* (822-834; part_001:614-619)
AddQuoteMetadata ==
    /\ pc = "add quote"
    /\ \E fetch \in MintFetches :
        LET quoteMetadata ==
                getTokenMetadata(frame.market.quoteMintAddress, KNOWN_TOKEN_SYMBOLS, fetch)
        IN  /\ frame' = [frame EXCEPT !.quoteMetadata = quoteMetadata]
            /\ KNOWN_MARKETS' = addedMarkets(KNOWN_MARKETS, TargetMarket(variant, args),
                                             frame.market, frame.baseMetadata, quoteMetadata)
            /\ KNOWN_TOKEN_SYMBOLS' = addedSymbols(KNOWN_TOKEN_SYMBOLS, frame.market,
                                                   frame.baseMetadata, quoteMetadata)
    /\ IF PrintsAll(KNOWN_MARKETS')
       THEN pc' = "save" /\ UNCHANGED outcome
       ELSE Finish("add failed")
    /\ UNCHANGED <<variant, args, chain, files, useSerum, detectedProgram, detectFetch, loads,
                   saves, addLoad, atLoad, atStart, report, call>>

\* The save as it would be if it always wrote the OpenBook file.
SaveToOpenBookFile ==
    /\ pc = "save"
    /\ \E write \in Writes :
        /\ files' = [files EXCEPT !["OpenBook"] =
                         saveKnownMarketsToFile(@, KNOWN_MARKETS, KNOWN_TOKEN_SYMBOLS, write)]
        /\ saves' = Append(saves, [file |-> "OpenBook", written |-> write = "written"])
    /\ Finish("added")
    /\ UNCHANGED <<variant, args, chain, KNOWN_MARKETS, KNOWN_TOKEN_SYMBOLS, useSerum,
                   detectedProgram, detectFetch, loads, addLoad, atLoad, atStart, report, frame,
                   call>>

\* saveKnownMarketsToFile(useSerum) and main's return (index.ts:818-821)
Save ==
    /\ pc = "save"
    /\ \E write \in Writes :
        /\ files' = [files EXCEPT ![ProgramName(useSerum)] =
                         saveKnownMarketsToFile(@, KNOWN_MARKETS, KNOWN_TOKEN_SYMBOLS, write)]
        /\ saves' = Append(saves, [file |-> ProgramName(useSerum), written |-> write = "written"])
    /\ Finish("added")
    /\ UNCHANGED <<variant, args, chain, KNOWN_MARKETS, KNOWN_TOKEN_SYMBOLS, useSerum,
                   detectedProgram, detectFetch, loads, addLoad, atLoad, atStart, report, frame,
                   call>>

\* const isValid = await isValidMarket(targetMarket, useSerum) (index.ts:840-847)
Validate ==
    /\ pc = "validate"
    /\ \E fetch \in AccountFetches :
        IF isValidMarket(TargetMarket(variant, args), useSerum, chain, fetch)
        THEN pc' = "info name" /\ UNCHANGED outcome
        ELSE Finish("not a valid market")
    /\ UNCHANGED <<variant, args, chain, files, KNOWN_MARKETS, KNOWN_TOKEN_SYMBOLS, useSerum,
                   detectedProgram, detectFetch, loads, saves, addLoad, atLoad, atStart, report,
                   frame, call>>

\* marketData?.name || marketAddress, replaced by the symbols when getMarketInfo
\* succeeds (index.ts:349-358, 411-420)
MarketName(marketAddress, markets, got) ==
    IF got.ok THEN PairName(got.info.baseSymbol, got.info.quoteSymbol)
    ELSE IF Has(markets, marketAddress) /\ markets[marketAddress].name # EmptyText
    THEN markets[marketAddress].name
    ELSE marketAddress

\* displayMarketInfo: the name (index.ts:411-423)
InfoName ==
    /\ pc = "info name"
    /\ \E fetch \in AccountFetches, notFound \in NotFoundSaid, baseFetch \in MintFetches,
          quoteFetch \in MintFetches :
        report' = [report EXCEPT !.name =
                       MarketName(TargetMarket(variant, args), KNOWN_MARKETS,
                                  getMarketInfo(TargetMarket(variant, args), useSerum,
                                                KNOWN_MARKETS, KNOWN_TOKEN_SYMBOLS, chain, fetch,
                                                notFound, baseFetch, quoteFetch))]
    /\ pc' = "info"
    /\ UNCHANGED <<variant, args, chain, files, KNOWN_MARKETS, KNOWN_TOKEN_SYMBOLS, useSerum,
                   detectedProgram, detectFetch, loads, saves, addLoad, atLoad, atStart, outcome,
                   frame, call>>

\* displayMarketInfo: the descriptor (index.ts:425-435); an error ends
\* displayMarketInfo (446-452) and main goes on to the order book
Info ==
    /\ pc = "info"
    /\ \E fetch \in AccountFetches, notFound \in NotFoundSaid, baseFetch \in MintFetches,
          quoteFetch \in MintFetches :
        LET got == getMarketInfo(TargetMarket(variant, args), useSerum, KNOWN_MARKETS,
                                 KNOWN_TOKEN_SYMBOLS, chain, fetch, notFound, baseFetch,
                                 quoteFetch)
        IN  /\ report' = [report EXCEPT !.info =
                              IF got.ok THEN [ok |-> TRUE, info |-> got.info]
                              ELSE [ok |-> FALSE, message |-> got.message]]
            /\ pc' = IF got.ok THEN "verify" ELSE "book name"
    /\ UNCHANGED <<variant, args, chain, files, KNOWN_MARKETS, KNOWN_TOKEN_SYMBOLS, useSerum,
                   detectedProgram, detectFetch, loads, saves, addLoad, atLoad, atStart, outcome,
                   frame, call>>

\* displayMarketInfo: the verification (index.ts:437-444)
Verify ==
    /\ pc = "verify"
    /\ \E fetch \in AccountFetches :
        report' = [report EXCEPT !.shown =
                       IF getMarketAccounts(TargetMarket(variant, args), useSerum, chain, fetch).ok
                       THEN {"verified"} ELSE {"verification failed"}]
    /\ pc' = "book name"
    /\ UNCHANGED <<variant, args, chain, files, KNOWN_MARKETS, KNOWN_TOKEN_SYMBOLS, useSerum,
                   detectedProgram, detectFetch, loads, saves, addLoad, atLoad, atStart, outcome,
                   frame, call>>

\* displayOrderBook: the name (index.ts:349-361)
BookName ==
    /\ pc = "book name"
    /\ \E fetch \in AccountFetches, notFound \in NotFoundSaid, baseFetch \in MintFetches,
          quoteFetch \in MintFetches :
        report' = [report EXCEPT !.name =
                       MarketName(TargetMarket(variant, args), KNOWN_MARKETS,
                                  getMarketInfo(TargetMarket(variant, args), useSerum,
                                                KNOWN_MARKETS, KNOWN_TOKEN_SYMBOLS, chain, fetch,
                                                notFound, baseFetch, quoteFetch))]
    /\ pc' = "book"
    /\ UNCHANGED <<variant, args, chain, files, KNOWN_MARKETS, KNOWN_TOKEN_SYMBOLS, useSerum,
                   detectedProgram, detectFetch, loads, saves, addLoad, atLoad, atStart, outcome,
                   frame, call>>

\* The slabs a read may return, given whether the read is issued at all.
QueueReads(issued, n) == IF issued THEN QueueFetches(n) ELSE {NotFetched}

\* displayOrderBook: the book and its statistics (index.ts:363-407), and the
\* end of main (862-879)
Book ==
    /\ pc = "book"
    /\ \E fetch \in AccountFetches, notFound \in NotFoundSaid :
        LET loaded == loadOpenBookMarket(TargetMarket(variant, args), useSerum, chain, fetch,
                                         notFound)
        IN  \E bids \in QueueReads(loaded.ok, MaxReportLevels) :
            \E asks \in QueueReads(loaded.ok /\ ~bids.failed, MaxReportLevels) :
                LET book == getRealOrderBook(TargetMarket(variant, args), ReportDepth, useSerum,
                                             chain, fetch, notFound, bids, asks)
                IN  report' = [report EXCEPT !.info =
                                   IF book.ok
                                   THEN [ok |-> TRUE, info |-> report.info,
                                         asksShown |-> [i \in 1..Len(book.asks) |->
                                                            book.asks[Len(book.asks) + 1 - i]],
                                         bidsShown |-> book.bids,
                                         stats |-> Stats(book.bids, book.asks),
                                         statsShown |->
                                             StatsShown(Stats(book.bids, book.asks))]
                                   ELSE [ok |-> FALSE, message |-> book.message]]
    /\ Finish("report")
    /\ UNCHANGED <<variant, args, chain, files, KNOWN_MARKETS, KNOWN_TOKEN_SYMBOLS, useSerum,
                   detectedProgram, detectFetch, loads, saves, addLoad, atLoad, atStart, frame,
                   call>>

Next ==
    \/ Start
    \/ Detect
    \/ Load
    \/ List
    \/ AddLoadMarket
    \/ AddBaseMetadata
    \/ AddQuoteMetadata
    \/ Save
    \/ Validate
    \/ InfoName
    \/ Info
    \/ Verify
    \/ BookName
    \/ Book

Spec == Init /\ [][Next]_vars

\* The duplicate has no isValidMarket step (part_001:587-592).
NextDup ==
    \/ Start
    \/ Detect
    \/ Load
    \/ List
    \/ AddLoadMarket
    \/ AddBaseMetadata
    \/ AddQuoteMetadata
    \/ Save
    \/ InfoName
    \/ Info
    \/ Verify
    \/ BookName
    \/ Book

SpecDup == InitDup /\ [][NextDup]_vars

---------------------------------------------------------------------------
(* The CLI run twice (part_000:1-9): each run is a new process, which      *)
(* starts with the module's empty mappings (index.ts:82-83) and finds the  *)
(* store files as the run before left them.                                *)

\* The same command line is run once more after an add that ended normally;
\* the chain is what it was.
RunAgain ==
    /\ pc = "done"
    /\ outcome = "added"
    /\ call = NoCall
    /\ call' = [fn |-> "main", outcome |-> outcome, saves |-> saves, loads |-> loads,
                files |-> files, markets |-> KNOWN_MARKETS, symbols |-> KNOWN_TOKEN_SYMBOLS]
    /\ pc' = "start"
    /\ atStart' = files
    /\ KNOWN_MARKETS' = EmptyMap
    /\ KNOWN_TOKEN_SYMBOLS' = EmptyMap
    /\ useSerum' = FALSE
    /\ detectedProgram' = "OpenBook"
    /\ detectFetch' = "none"
    /\ loads' = <<>>
    /\ saves' = <<>>
    /\ addLoad' = "none"
    /\ atLoad' = [markets |-> EmptyMap, symbols |-> EmptyMap]
    /\ report' = NoReport
    /\ outcome' = "running"
    /\ frame' = NoFrame
    /\ UNCHANGED <<variant, args, chain, files>>

NextTwice ==
    \/ Next
    \/ RunAgain

SpecTwice == Init /\ [][NextTwice]_vars

---------------------------------------------------------------------------
(* Two CLI processes at once: beside the invocation of main above, a       *)
(* second process adds the market MARKET_ADDRESS, which the same program   *)
(* owns. It has its own KNOWN_MARKETS and KNOWN_TOKEN_SYMBOLS, kept in     *)
(* call, and shares the store files. Its detection and its market load     *)
(* succeed.                                                                *)

\* The program that owns the markets on the chain.
OwnerProgram == ProgramName(chain.owner = SERUM_PROGRAM_ID)

InitRace ==
    /\ pc = "start"
    /\ variant = "index"
    /\ args \in {a \in ArgLists : a.first = M1 /\ WantsAdd(a) /\ ~HasArg(a, ListFlag, ListShort)}
    /\ chain \in {account \in Accounts :
                      account.market /\ account.owner \in {OPENBOOK_PROGRAM_ID, SERUM_PROGRAM_ID}}
    /\ files \in StorePairs
    /\ atStart = files
    /\ KNOWN_MARKETS = EmptyMap
    /\ KNOWN_TOKEN_SYMBOLS = EmptyMap
    /\ useSerum = FALSE
    /\ detectedProgram = "OpenBook"
    /\ detectFetch = "none"
    /\ loads = <<>>
    /\ saves = <<>>
    /\ addLoad = "none"
    /\ atLoad = [markets |-> EmptyMap, symbols |-> EmptyMap]
    /\ report = NoReport
    /\ outcome = "running"
    /\ frame = NoFrame
    /\ call = [fn |-> "concurrent main", pc |-> "load", markets |-> EmptyMap,
               symbols |-> EmptyMap, written |-> FALSE]

\* The other process: loadKnownMarketsFromFile(useSerum) (index.ts:800-801)
OtherLoad ==
    /\ call.fn = "concurrent main"
    /\ call.pc = "load"
    /\ LET loaded == loadKnownMarketsFromFile(files[OwnerProgram])
       IN  call' = [call EXCEPT !.pc = "add", !.markets = loaded.markets,
                                !.symbols = loaded.symbols]
    /\ UNCHANGED <<variant, args, chain, files, KNOWN_MARKETS, KNOWN_TOKEN_SYMBOLS, pc, useSerum,
                   detectedProgram, detectFetch, loads, saves, addLoad, atLoad, atStart, report,
                   outcome, frame>>

\* The other process: addMarketToKnownMarkets(targetMarket, useSerum)
\* (index.ts:466-511), in its own memory
OtherAdd ==
    /\ call.fn = "concurrent main"
    /\ call.pc = "add"
    /\ \E baseFetch \in MintFetches, quoteFetch \in MintFetches :
        LET market == MarketLoad(MARKET_ADDRESS, chain.owner, chain, "reply", MarketNotFound)
            baseMetadata == getTokenMetadata(market.baseMintAddress, call.symbols, baseFetch)
            quoteMetadata == getTokenMetadata(market.quoteMintAddress, call.symbols, quoteFetch)
            markets == addedMarkets(call.markets, MARKET_ADDRESS, market, baseMetadata,
                                    quoteMetadata)
        IN  call' = [call EXCEPT
                        !.pc = IF PrintsAll(markets) THEN "save" ELSE "done",
                        !.markets = markets,
                        !.symbols = addedSymbols(call.symbols, market, baseMetadata,
                                                 quoteMetadata)]
    /\ UNCHANGED <<variant, args, chain, files, KNOWN_MARKETS, KNOWN_TOKEN_SYMBOLS, pc, useSerum,
                   detectedProgram, detectFetch, loads, saves, addLoad, atLoad, atStart, report,
                   outcome, frame>>

\* The other process: saveKnownMarketsToFile(useSerum) (index.ts:818-821)
OtherSave ==
    /\ call.fn = "concurrent main"
    /\ call.pc = "save"
    /\ \E write \in Writes :
        /\ files' = [files EXCEPT ![OwnerProgram] =
                         saveKnownMarketsToFile(@, call.markets, call.symbols, write)]
        /\ call' = [call EXCEPT !.pc = "done", !.written = write = "written"]
    /\ UNCHANGED <<variant, args, chain, KNOWN_MARKETS, KNOWN_TOKEN_SYMBOLS, pc, useSerum,
                   detectedProgram, detectFetch, loads, saves, addLoad, atLoad, atStart, report,
                   outcome, frame>>

NextRace ==
    \/ Start
    \/ Detect
    \/ Load
    \/ AddLoadMarket
    \/ AddBaseMetadata
    \/ AddQuoteMetadata
    \/ Save
    \/ OtherLoad
    \/ OtherAdd
    \/ OtherSave

SpecRace == InitRace /\ [][NextRace]_vars

---------------------------------------------------------------------------
(* Direct calls of the functions, as a module that imports index.ts makes  *)
(* them (index.ts:891-900), over a store that has been loaded.             *)

TokenIds == {BaseMint, QuoteMint, BadKey, EmptyText}

InitUnit ==
    /\ pc = "unit"
    /\ variant = "index"
    /\ args = [first |-> EmptyText, rest |-> {}]
    /\ chain \in Accounts
    /\ files = [p \in Programs |-> MissingFile]
    /\ atStart = files
    /\ \E file \in StoreFiles :
        /\ KNOWN_MARKETS = loadKnownMarketsFromFile(file).markets
        /\ KNOWN_TOKEN_SYMBOLS = loadKnownMarketsFromFile(file).symbols
    /\ useSerum = FALSE
    /\ detectedProgram = "OpenBook"
    /\ detectFetch = "none"
    /\ loads = <<>>
    /\ saves = <<>>
    /\ addLoad = "none"
    /\ atLoad = [markets |-> EmptyMap, symbols |-> EmptyMap]
    /\ report = NoReport
    /\ outcome = "running"
    /\ frame = NoFrame
    /\ call = NoCall

CallGetTokenMetadata ==
    /\ pc = "unit"
    /\ \E mintAddress \in TokenIds, fetch \in MintFetches :
        call' = [fn |-> "getTokenMetadata", mintAddress |-> mintAddress, fetch |-> fetch,
                 ret |-> getTokenMetadata(mintAddress, KNOWN_TOKEN_SYMBOLS, fetch)]
    /\ pc' = "returned"
    /\ UNCHANGED <<variant, args, chain, files, KNOWN_MARKETS, KNOWN_TOKEN_SYMBOLS, useSerum,
                   detectedProgram, detectFetch, loads, saves, addLoad, atLoad, atStart, report,
                   outcome, frame>>

CallGetRealOrderBook ==
    /\ pc = "unit"
    /\ \E depth \in 1..MaxDepth, serum \in BOOLEAN, fetch \in AccountFetches,
          notFound \in NotFoundSaid :
        LET loaded == loadOpenBookMarket(M1, serum, chain, fetch, notFound)
        IN  \E bids \in QueueReads(loaded.ok, MaxLevels) :
            \E asks \in QueueReads(loaded.ok /\ ~bids.failed, MaxLevels) :
                call' = [fn |-> "getRealOrderBook", depth |-> depth, fetch |-> fetch,
                         failed |-> [bids |-> bids.failed, asks |-> asks.failed],
                         slabs |-> [bids |-> bids.levels, asks |-> asks.levels],
                         ret |-> getRealOrderBook(M1, depth, serum, chain, fetch, notFound,
                                                  bids, asks)]
    /\ pc' = "returned"
    /\ UNCHANGED <<variant, args, chain, files, KNOWN_MARKETS, KNOWN_TOKEN_SYMBOLS, useSerum,
                   detectedProgram, detectFetch, loads, saves, addLoad, atLoad, atStart, report,
                   outcome, frame>>

CallGetMarketStats ==
    /\ pc = "unit"
    /\ \E serum \in BOOLEAN, fetch \in AccountFetches, notFound \in NotFoundSaid :
        LET loaded == loadOpenBookMarket(M1, serum, chain, fetch, notFound)
        IN  \E bids \in QueueReads(loaded.ok, MaxLevels) :
            \E asks \in QueueReads(loaded.ok /\ ~bids.failed, MaxLevels) :
                call' = [fn |-> "getMarketStats", depth |-> StatsDepth,
                         slabs |-> [bids |-> bids.levels, asks |-> asks.levels],
                         ret |-> getMarketStats(M1, serum, chain, fetch, notFound, bids, asks)]
    /\ pc' = "returned"
    /\ UNCHANGED <<variant, args, chain, files, KNOWN_MARKETS, KNOWN_TOKEN_SYMBOLS, useSerum,
                   detectedProgram, detectFetch, loads, saves, addLoad, atLoad, atStart, report,
                   outcome, frame>>

CallLoadOpenBookMarket ==
    /\ pc = "unit"
    /\ \E marketAddress \in {M1, BadKey}, serum \in BOOLEAN, fetch \in AccountFetches,
          notFound \in NotFoundSaid :
        call' = [fn |-> "loadOpenBookMarket", marketAddress |-> marketAddress,
                 serum |-> serum, fetch |-> fetch,
                 ret |-> loadOpenBookMarket(marketAddress, serum, chain, fetch, notFound)]
    /\ pc' = "returned"
    /\ UNCHANGED <<variant, args, chain, files, KNOWN_MARKETS, KNOWN_TOKEN_SYMBOLS, useSerum,
                   detectedProgram, detectFetch, loads, saves, addLoad, atLoad, atStart, report,
                   outcome, frame>>

CallIsValidMarket ==
    /\ pc = "unit"
    /\ \E marketAddress \in {M1, BadKey}, serum \in BOOLEAN, fetch \in AccountFetches :
        call' = [fn |-> "isValidMarket", marketAddress |-> marketAddress, serum |-> serum,
                 fetch |-> fetch,
                 ret |-> [ok |-> isValidMarket(marketAddress, serum, chain, fetch),
                          requests |-> ownerRequests(marketAddress)]]
    /\ pc' = "returned"
    /\ UNCHANGED <<variant, args, chain, files, KNOWN_MARKETS, KNOWN_TOKEN_SYMBOLS, useSerum,
                   detectedProgram, detectFetch, loads, saves, addLoad, atLoad, atStart, report,
                   outcome, frame>>

CallGetMarketAccounts ==
    /\ pc = "unit"
    /\ \E marketAddress \in {M1, BadKey}, serum \in BOOLEAN, fetch \in AccountFetches :
        call' = [fn |-> "getMarketAccounts", marketAddress |-> marketAddress, serum |-> serum,
                 fetch |-> fetch,
                 ret |-> [ok |-> getMarketAccounts(marketAddress, serum, chain, fetch).ok,
                          requests |-> ownerRequests(marketAddress)]]
    /\ pc' = "returned"
    /\ UNCHANGED <<variant, args, chain, files, KNOWN_MARKETS, KNOWN_TOKEN_SYMBOLS, useSerum,
                   detectedProgram, detectFetch, loads, saves, addLoad, atLoad, atStart, report,
                   outcome, frame>>

\* The reads getRealOrderBook has in flight after one of its awaits has
\* returned, as they would be if bids and asks were read in parallel after
\* the market load.
readsIssuedInParallel(step, succeeded) ==
    IF step = "Market.load" /\ succeeded THEN {"loadBids", "loadAsks"} ELSE {}

\* The read getRealOrderBook issues after one of its awaits has returned
\* (index.ts:257-262): loadBids after the market load, loadAsks after loadBids,
\* nothing after a failure, which leaves the try block.
readsIssued(step, succeeded) ==
    IF ~succeeded THEN {}
    ELSE IF step = "Market.load" THEN {"loadBids"}
    ELSE IF step = "loadBids" THEN {"loadAsks"}
    ELSE {}

\* The order of the set of reads put in flight together.
InOrder(ops) ==
    IF ops = {"loadBids", "loadAsks"} THEN <<"loadBids", "loadAsks">>
    ELSE IF ops = {} THEN <<>>
    ELSE <<CHOOSE op \in ops : TRUE>>

\* getRealOrderBook, await by await (index.ts:252-262): the call, up to the
\* market load being in flight.
ReadOrderBook ==
    /\ pc = "unit"
    /\ \E depth \in 1..MaxDepth, serum \in BOOLEAN :
        call' = [fn |-> "order book reader", depth |-> depth, serum |-> serum,
                 inFlight |-> {"Market.load"}, issued |-> <<"Market.load">>,
                 succeeded |-> {}, failed |-> {}, fetch |-> "none", notFound |-> <<>>,
                 bids |-> NotFetched, ret |-> [ok |-> FALSE, requests |-> <<>>]]
    /\ pc' = "reader load"
    /\ UNCHANGED <<variant, args, chain, files, KNOWN_MARKETS, KNOWN_TOKEN_SYMBOLS, useSerum,
                   detectedProgram, detectFetch, loads, saves, addLoad, atLoad, atStart, report,
                   outcome, frame>>

\* await loadOpenBookMarket(marketAddress, useSerum) returns (index.ts:257)
ReadMarketLoaded ==
    /\ pc = "reader load"
    /\ \E fetch \in AccountFetches, notFound \in NotFoundSaid :
        LET loaded == loadOpenBookMarket(M1, call.serum, chain, fetch, notFound)
            next == readsIssued("Market.load", loaded.ok)
        IN  /\ call' = [call EXCEPT
                           !.fetch = fetch, !.notFound = notFound,
                           !.inFlight = (@ \ {"Market.load"}) \cup next,
                           !.issued = @ \o InOrder(next),
                           !.succeeded = IF loaded.ok THEN @ \cup {"Market.load"} ELSE @,
                           !.failed = IF loaded.ok THEN @ ELSE @ \cup {"Market.load"},
                           !.ret = IF loaded.ok THEN @
                                   ELSE getRealOrderBook(M1, call.depth, call.serum, chain, fetch,
                                                         notFound, NotFetched, NotFetched)]
            /\ pc' = IF loaded.ok THEN "reader bids" ELSE "returned"
    /\ UNCHANGED <<variant, args, chain, files, KNOWN_MARKETS, KNOWN_TOKEN_SYMBOLS, useSerum,
                   detectedProgram, detectFetch, loads, saves, addLoad, atLoad, atStart, report,
                   outcome, frame>>

\* await market.loadBids(connection) returns (index.ts:261)
ReadBidsLoaded ==
    /\ pc = "reader bids"
    /\ \E bids \in QueueFetches(MaxLevels) :
        LET next == readsIssued("loadBids", ~bids.failed)
        IN  /\ call' = [call EXCEPT
                           !.bids = bids,
                           !.inFlight = (@ \ {"loadBids"}) \cup next,
                           !.issued = @ \o InOrder(next \ call.inFlight),
                           !.succeeded = IF bids.failed THEN @ ELSE @ \cup {"loadBids"},
                           !.failed = IF bids.failed THEN @ \cup {"loadBids"} ELSE @,
                           !.ret = IF ~bids.failed THEN @
                                   ELSE getRealOrderBook(M1, call.depth, call.serum, chain,
                                                         call.fetch, call.notFound, bids,
                                                         NotFetched)]
            /\ pc' = IF bids.failed THEN "returned" ELSE "reader asks"
    /\ UNCHANGED <<variant, args, chain, files, KNOWN_MARKETS, KNOWN_TOKEN_SYMBOLS, useSerum,
                   detectedProgram, detectFetch, loads, saves, addLoad, atLoad, atStart, report,
                   outcome, frame>>

\* await market.loadAsks(connection) returns, and the rest of getRealOrderBook
\* (index.ts:262-296)
ReadAsksLoaded ==
    /\ pc = "reader asks"
    /\ \E asks \in QueueFetches(MaxLevels) :
        call' = [call EXCEPT
                    !.inFlight = @ \ {"loadAsks"},
                    !.succeeded = IF asks.failed THEN @ ELSE @ \cup {"loadAsks"},
                    !.failed = IF asks.failed THEN @ \cup {"loadAsks"} ELSE @,
                    !.ret = getRealOrderBook(M1, call.depth, call.serum, chain, call.fetch,
                                             call.notFound, call.bids, asks)]
    /\ pc' = "returned"
    /\ UNCHANGED <<variant, args, chain, files, KNOWN_MARKETS, KNOWN_TOKEN_SYMBOLS, useSerum,
                   detectedProgram, detectFetch, loads, saves, addLoad, atLoad, atStart, report,
                   outcome, frame>>

\* The names displayOrderBook may print for a market (index.ts:349-358), over
\* the outcomes of the requests of getMarketInfo.
MarketNames(marketAddress, serum) ==
    {MarketName(marketAddress, KNOWN_MARKETS,
                getMarketInfo(marketAddress, serum, KNOWN_MARKETS, KNOWN_TOKEN_SYMBOLS, chain,
                              fetch, notFound, baseFetch, quoteFetch)) :
        fetch \in AccountFetches, notFound \in NotFoundSaid, baseFetch \in MintFetches,
        quoteFetch \in MintFetches}

\* displayOrderBook called directly (index.ts:347-407): the name, from
\* getMarketInfo, then the book and its statistics.
CallDisplayOrderBook ==
    /\ pc = "unit"
    /\ \E serum \in BOOLEAN, fetch \in AccountFetches, notFound \in NotFoundSaid :
        LET loaded == loadOpenBookMarket(M1, serum, chain, fetch, notFound)
        IN  \E name \in MarketNames(M1, serum) :
            \E bids \in QueueReads(loaded.ok, MaxLevels) :
            \E asks \in QueueReads(loaded.ok /\ ~bids.failed, MaxLevels) :
                call' = [fn |-> "displayOrderBook", depth |-> ReportDepth, fetch |-> fetch,
                         failed |-> [bids |-> bids.failed, asks |-> asks.failed],
                         slabs |-> [bids |-> bids.levels, asks |-> asks.levels],
                         name |-> name,
                         ret |-> PrintedBook(getRealOrderBook(M1, ReportDepth, serum, chain,
                                                              fetch, notFound, bids, asks))]
    /\ pc' = "returned"
    /\ UNCHANGED <<variant, args, chain, files, KNOWN_MARKETS, KNOWN_TOKEN_SYMBOLS, useSerum,
                   detectedProgram, detectFetch, loads, saves, addLoad, atLoad, atStart, report,
                   outcome, frame>>

\* getMarketInfo called directly (index.ts:126-178)
CallGetMarketInfo ==
    /\ pc = "unit"
    /\ \E marketAddress \in {M1, MARKET_ADDRESS}, serum \in BOOLEAN, fetch \in AccountFetches,
          notFound \in NotFoundSaid, baseFetch \in MintFetches, quoteFetch \in MintFetches :
        call' = [fn |-> "getMarketInfo", marketAddress |-> marketAddress, serum |-> serum,
                 fetch |-> fetch, baseFetch |-> baseFetch, quoteFetch |-> quoteFetch,
                 ret |-> getMarketInfo(marketAddress, serum, KNOWN_MARKETS, KNOWN_TOKEN_SYMBOLS,
                                       chain, fetch, notFound, baseFetch, quoteFetch)]
    /\ pc' = "returned"
    /\ UNCHANGED <<variant, args, chain, files, KNOWN_MARKETS, KNOWN_TOKEN_SYMBOLS, useSerum,
                   detectedProgram, detectFetch, loads, saves, addLoad, atLoad, atStart, report,
                   outcome, frame>>

\* getOrderBook called directly (index.ts:299-314)
CallGetOrderBook ==
    /\ pc = "unit"
    /\ \E marketAddress \in {M1, BadKey}, depth \in 1..MaxDepth, ownerFetch \in AccountFetches,
          fetch \in AccountFetches, notFound \in NotFoundSaid :
        LET verified == getMarketAccounts(marketAddress, FALSE, chain, ownerFetch)
            loaded == loadOpenBookMarket(marketAddress, FALSE, chain, fetch, notFound)
        IN  \E bids \in QueueReads(verified.ok /\ loaded.ok, MaxLevels) :
            \E asks \in QueueReads(verified.ok /\ loaded.ok /\ ~bids.failed, MaxLevels) :
                call' = [fn |-> "getOrderBook", marketAddress |-> marketAddress,
                         depth |-> depth, ownerFetch |-> ownerFetch,
                         ret |-> getOrderBook(marketAddress, depth, chain, ownerFetch, fetch,
                                              notFound, bids, asks)]
    /\ pc' = "returned"
    /\ UNCHANGED <<variant, args, chain, files, KNOWN_MARKETS, KNOWN_TOKEN_SYMBOLS, useSerum,
                   detectedProgram, detectFetch, loads, saves, addLoad, atLoad, atStart, report,
                   outcome, frame>>

NextUnit ==
    \/ CallLoadOpenBookMarket
    \/ CallIsValidMarket
    \/ CallGetMarketAccounts
    \/ CallGetTokenMetadata
    \/ CallGetRealOrderBook
    \/ CallGetMarketStats
    \/ CallGetMarketInfo
    \/ CallGetOrderBook
    \/ CallDisplayOrderBook
    \/ ReadOrderBook
    \/ ReadMarketLoaded
    \/ ReadBidsLoaded
    \/ ReadAsksLoaded

SpecUnit == InitUnit /\ [][NextUnit]_vars

---------------------------------------------------------------------------
(* Properties.                                                             *)

NonIncreasing(levels) ==
    \A i \in 1..(Len(levels) - 1) : levels[i].price >= levels[i + 1].price

NonDecreasing(levels) ==
    \A i \in 1..(Len(levels) - 1) : levels[i].price <= levels[i + 1].price

Fetched(requests) == \E i \in 1..Len(requests) : requests[i].op = "getParsedAccountInfo"

\* C1: every order book getRealOrderBook returns has its bids in non-increasing
\* and its asks in non-decreasing price order, whatever order the queue decoder
\* yields the pairs in.
C1_BookSorted ==
    (call.fn = "getRealOrderBook" /\ call.ret.ok)
        => NonIncreasing(call.ret.bids) /\ NonDecreasing(call.ret.asks)

\* C2: the order book reader returns at most depth bid levels and at most depth
\* ask levels, for getRealOrderBook called with any depth and for getMarketStats,
\* which asks for 1.
C2_DepthRespected ==
    (call.fn \in {"getRealOrderBook", "getMarketStats"} /\ call.ret.ok)
        => Len(call.ret.bids) <= call.depth /\ Len(call.ret.asks) <= call.depth

\* C3: for any identifier (the empty string and malformed ones included) and any
\* outcome of the mint fetch, getTokenMetadata does not raise and returns a
\* non-empty symbol.
C3_SymbolNeverEmpty ==
    call.fn = "getTokenMetadata" => ~call.ret.raised /\ call.ret.symbol # EmptyText

\* C4 as stated: for every token id that has an entry in the symbol mapping,
\* getTokenMetadata returns that entry with decimals 6 and fetches no mint.
C4_CachedSymbolAlways ==
    (call.fn = "getTokenMetadata" /\ call.mintAddress \in DOMAIN KNOWN_TOKEN_SYMBOLS)
        => /\ call.ret.symbol = KNOWN_TOKEN_SYMBOLS[call.mintAddress]
           /\ call.ret.decimals = DefaultDecimals
           /\ ~Fetched(call.ret.requests)

\* C4 as amended: for every well-formed token id whose entry in the symbol
\* mapping is a non-empty symbol, getTokenMetadata returns that entry with
\* decimals 6 and fetches no mint.
C4_CachedSymbolWellFormed ==
    (/\ call.fn = "getTokenMetadata"
     /\ call.mintAddress \in DOMAIN KNOWN_TOKEN_SYMBOLS
     /\ IsPublicKey(call.mintAddress)
     /\ KNOWN_TOKEN_SYMBOLS[call.mintAddress] # EmptyText)
        => /\ call.ret.symbol = KNOWN_TOKEN_SYMBOLS[call.mintAddress]
           /\ call.ret.decimals = DefaultDecimals
           /\ ~Fetched(call.ret.requests)

\* A well-formed id with the cached symbol USDC has been resolved.
C4_Witness ==
    /\ call.fn = "getTokenMetadata"
    /\ call.mintAddress = BaseMint
    /\ BaseMint \in DOMAIN KNOWN_TOKEN_SYMBOLS
    /\ KNOWN_TOKEN_SYMBOLS[BaseMint] = USDC
    /\ call.ret.symbol = USDC

\* main returned at the detection, before any store was loaded.
ReturnedAtDetection == pc = "done" /\ loads = <<>>

\* C5: in index.ts's main, once the owner fetch has returned an account, the
\* identity is decided by equality with the two program ids: an account owned by
\* Serum goes on as Serum, one owned by OpenBook as OpenBook, and one owned by any
\* other id as neither (main returns with "not a valid market").
C5_IdentityByOwner ==
    detectFetch \notin {"none", "error", "null"}
        => /\ detectFetch = SERUM_PROGRAM_ID
                => useSerum /\ detectedProgram = "Serum" /\ ~ReturnedAtDetection
           /\ detectFetch = OPENBOOK_PROGRAM_ID
                => ~useSerum /\ detectedProgram = "OpenBook" /\ ~ReturnedAtDetection
           /\ detectFetch \notin {SERUM_PROGRAM_ID, OPENBOOK_PROGRAM_ID}
                => ReturnedAtDetection /\ outcome = "not a valid market"

\* A market owned by Serum was detected as Serum without the --serum flag.
C5_Witness ==
    /\ detectFetch = SERUM_PROGRAM_ID
    /\ ~HasArg(args, SerumFlag, SerumShort)
    /\ useSerum
    /\ loads = <<"Serum">>

\* C6: when the owner fetch finds no account, or an account owned by neither
\* program, the invocation returns there: no store is loaded, no add workflow
\* runs, nothing is saved and no report is produced.
C6_AbortsOnUnknownOwner ==
    detectFetch \in {"null", SYSTEM_PROGRAM_ID}
        => /\ ReturnedAtDetection
           /\ saves = <<>>
           /\ addLoad = "none"
           /\ report = NoReport

C8_NoPartialAdd ==
    addLoad = "failed"
        => /\ KNOWN_MARKETS = atLoad.markets
           /\ KNOWN_TOKEN_SYMBOLS = atLoad.symbols
           /\ saves = <<>>
           /\ files = atStart
           /\ pc = "done"

\* An add over a store that holds a market ended with its market load failed.
C8_Witness ==
    /\ addLoad = "failed"
    /\ pc = "done"
    /\ WantsAdd(args)
    /\ atLoad.markets # EmptyMap

\* C9: once the symbol mapping holds an entry for a token id, whatever its
\* value, an add leaves that entry's value as it was, in memory and in the file
\* it saves.
C9_FirstWriterWins ==
    addLoad = "ok"
        => \A id \in DOMAIN atLoad.symbols :
            /\ id \in DOMAIN KNOWN_TOKEN_SYMBOLS
            /\ KNOWN_TOKEN_SYMBOLS[id] = atLoad.symbols[id]

\* The invocation runs the add workflow.
IsAdd ==
    /\ WantsAdd(args)
    /\ ~HasArg(args, ListFlag, ListShort)
    /\ ~HasArg(args, HelpFlag, HelpShort)
    /\ variant = "index"
        => ~HasArg(args, VersionFlag, VersionShort) /\ ~HasArg(args, UpdateFlag, UpdateFlag)

\* C10: in an invocation that is not an add (a report, --list, --help,
\* --version), the in-memory mappings are never modified after the load of the
\* store, no store file is written and the add workflow never runs.
C10_OnlyAddMutates ==
    ~IsAdd
        => /\ files = atStart
           /\ saves = <<>>
           /\ addLoad = "none"
           /\ KNOWN_MARKETS = atLoad.markets
           /\ KNOWN_TOKEN_SYMBOLS = atLoad.symbols

\* A report over a store that holds the market has been printed.
C10_Witness ==
    /\ ~IsAdd
    /\ pc = "done"
    /\ outcome = "report"
    /\ M1 \in DOMAIN KNOWN_MARKETS
    /\ report.info.ok

\* The store file has the shape saveKnownMarketsToFile writes: a JSON object
\* with a markets and a symbols member.
ExpectedShape(file) == file.kind = "json"

\* C11: when the store file is missing, unreadable or anything but JSON of the
\* expected shape, the load leaves both mappings empty and main goes on; the
\* store is loaded at most once per invocation.
C11_LoadNeverFails ==
    /\ Len(loads) <= 1
    /\ (loads # <<>> /\ ~ExpectedShape(atStart[loads[1]]))
          => /\ atLoad.markets = EmptyMap
             /\ atLoad.symbols = EmptyMap
             /\ pc # "load"

\* C12: within one invocation at most one store file is read, every save writes
\* that same file, it is the file of the identity the invocation goes on with,
\* and the other program's file stays as it was.
C12_OneStore ==
    /\ Len(loads) <= 1
    /\ \A i \in 1..Len(saves) : loads # <<>> /\ saves[i].file = loads[1]
    /\ loads # <<>> => loads[1] = ProgramName(useSerum) /\ detectedProgram = loads[1]
    /\ \A p \in Programs : (loads = <<>> \/ p # loads[1]) => files[p] = atStart[p]

\* An add to the Serum store was written while the OpenBook file held a store.
C12_Witness ==
    /\ loads = <<"Serum">>
    /\ saves = <<[file |-> "Serum", written |-> TRUE]>>
    /\ files["Serum"] # atStart["Serum"]
    /\ atStart["OpenBook"] = KnownStore
    /\ files["OpenBook"] = KnownStore

\* Why a call of the market loader failed: the account is absent, it is owned
\* by another program than the expected one, or anything else (a malformed
\* address, a network error, an account that decodes to no market).
FailureCause(marketAddress, serum, account, fetch) ==
    IF IsPublicKey(marketAddress) /\ fetch = "reply" /\ ~account.exists THEN "not found"
    ELSE IF IsPublicKey(marketAddress) /\ fetch = "reply" /\ account.owner # ProgramId(serum)
    THEN "not owned"
    ELSE "other"

\* The error is the generic one: "Failed to load <program> market: ..."
Wrapped(message, serum) ==
    Take(message, 6) = <<"Failed","to","load", ProgramName(serum), "market", ":">>

\* C13: a failed call of loadOpenBookMarket raises "Market not owned by
\* <program> program" for an account of another owner, "Market account not
\* found" for an absent account, and the wrapped "Failed to load <program>
\* market: ..." for every other cause and for no other.
C13_ThreeDistinctErrors ==
    (call.fn = "loadOpenBookMarket" /\ ~call.ret.ok)
        => LET cause == FailureCause(call.marketAddress, call.serum, chain, call.fetch)
           IN  /\ cause = "not owned"
                    => call.ret.message
                           = <<"Market","not","owned","by", ProgramName(call.serum), "program">>
               /\ cause = "not found" => call.ret.message = MarketAccountNotFound
               /\ cause = "other" <=> Wrapped(call.ret.message, call.serum)

\* C14: however main ends, it returns (after printing its result or reporting
\* the failure): its promise does not reject and the wrapper exits with 0.
C14_MainNeverRejects ==
    pc = "done" => outcome \in Returns /\ ExitCode(outcome) = 0

\* main ended after reporting a failed add, the owner fetch of the detection
\* having failed as well.
C14_Witness ==
    /\ pc = "done"
    /\ outcome = "add failed"
    /\ detectFetch = "error"

Prices(levels) == {levels[i].price : i \in 1..Len(levels)}

Highest(S) == CHOOSE x \in S : \A y \in S : y <= x

Lowest(S) == CHOOSE x \in S : \A y \in S : x <= y

\* C15: for a book with at least one bid and one ask, each side best first,
\* getMarketStats reports the highest bid price as bestBid, the lowest ask price
\* as bestAsk, their difference as spread and spread * 100 / bestBid as
\* spreadPercentage, none of them null, also when bestAsk equals bestBid.
C15_StatsOfBothSides ==
    (/\ call.fn = "getMarketStats"
     /\ call.ret.ok
     /\ call.ret.bids # <<>>
     /\ call.ret.asks # <<>>
     /\ NonIncreasing(call.ret.bids)
     /\ NonDecreasing(call.ret.asks))
        => LET stats == call.ret.stats
               bestBid == Highest(Prices(call.ret.bids))
               bestAsk == Lowest(Prices(call.ret.asks))
           IN  /\ stats.bestBid = Num(bestBid)
               /\ stats.bestAsk = Num(bestAsk)
               /\ stats.spread = Num(bestAsk - bestBid)
               /\ stats.spreadPercentage
                      = [isNull |-> FALSE, value |-> (bestAsk - bestBid) * 100, per |-> bestBid]

\* A getTokenMetadata of the add workflow has returned.
Resolved(metadata) == "symbol" \in DOMAIN metadata

\* The descriptor has been put into the in-memory store.
PutDone == Resolved(frame.quoteMetadata)

\* C16: the add workflow advances in the order load market, resolve base
\* symbol, resolve quote symbol, put, save: no step has happened without the
\* ones before it, put and save follow a successful load of the same
\* invocation, and every add whose load succeeded has, when main ends, put the
\* descriptor and called save.
C16_AddWorkflowOrder ==
    /\ Resolved(frame.baseMetadata) => addLoad = "ok"
    /\ Resolved(frame.quoteMetadata) => Resolved(frame.baseMetadata)
    /\ KNOWN_MARKETS # atLoad.markets => PutDone
    /\ PutDone => Has(KNOWN_MARKETS, TargetMarket(variant, args))
    /\ saves # <<>> => PutDone /\ Len(saves) = 1
    /\ (pc = "done" /\ addLoad = "ok") => PutDone /\ saves # <<>>

FirstChars(text, n) == IF Len(text) <= n THEN text ELSE SubSeq(text, 1, n)

\* C18: when the token id is malformed, or the mint fetch that was made failed
\* or returned no account, getTokenMetadata returns, without raising, the
\* first 8 characters of the id as symbol, 6 decimals and the name "Unknown
\* Token"; for a malformed id it does so whether or not the id has a cached
\* symbol, and it makes no network request.
C18_FinalFallback ==
    call.fn = "getTokenMetadata"
        => /\ (\/ ~IsPublicKey(call.mintAddress)
               \/ Fetched(call.ret.requests) /\ call.fetch.kind \in {"error", "null"})
                 => /\ ~call.ret.raised
                    /\ call.ret.symbol = FirstChars(call.mintAddress, SymbolLen)
                    /\ call.ret.decimals = DefaultDecimals
                    /\ call.ret.name = UnknownToken
           /\ ~IsPublicKey(call.mintAddress) => call.ret.requests = <<>>

\* A malformed id that has a cached symbol has been resolved to its own first
\* characters.
C18_Witness ==
    /\ call.fn = "getTokenMetadata"
    /\ call.mintAddress = BadKey
    /\ Truthy(KNOWN_TOKEN_SYMBOLS, BadKey)
    /\ call.ret.symbol = BadKey
    /\ call.ret.requests = <<>>

\* C19: when the owner fetch of the detection fails with a network error, main
\* ends there with the failure reported: no store is loaded under the flag's
\* or a default identity, nothing is added, saved or displayed.
C19_DetectionErrorSurfaced ==
    detectFetch = "error"
        => /\ ReturnedAtDetection
           /\ addLoad = "none"
           /\ saves = <<>>
           /\ report = NoReport

\* The requests of the last call that failed with a network error.
FailedOps ==
    CASE call.fn = "getTokenMetadata"
            -> IF call.fetch.kind = "error" THEN {"getParsedAccountInfo"} ELSE {}
      [] call.fn \in {"isValidMarket", "getMarketAccounts"}
            -> IF call.fetch = "error" THEN {"getAccountInfo"} ELSE {}
      [] call.fn = "loadOpenBookMarket"
            -> IF call.fetch = "error" THEN {"Market.load"} ELSE {}
      [] call.fn = "getRealOrderBook"
            -> (IF call.fetch = "error" THEN {"Market.load"} ELSE {})
               \cup (IF call.failed.bids THEN {"loadBids"} ELSE {})
               \cup (IF call.failed.asks THEN {"loadAsks"} ELSE {})
      [] OTHER -> {}

\* C20: within one call of loadOpenBookMarket, getTokenMetadata, isValidMarket,
\* getMarketAccounts or getRealOrderBook no network request is issued twice,
\* and a request that failed is the last request of the call.
C20_NoRetries ==
    call.fn \in {"loadOpenBookMarket", "getTokenMetadata", "isValidMarket", "getMarketAccounts",
                 "getRealOrderBook"}
        => LET requests == call.ret.requests
           IN  /\ \A i, j \in 1..Len(requests) : requests[i] = requests[j] => i = j
               /\ \A i \in 1..Len(requests) : requests[i].op \in FailedOps => i = Len(requests)

\* The order book reader stopped at the read of the bids, which failed.
C20_Witness ==
    /\ call.fn = "getRealOrderBook"
    /\ ~call.ret.ok
    /\ call.failed.bids
    /\ call.ret.requests = <<Request("Market.load", M1), Request("loadBids", M1)>>

\* The requests of a call, by name.
Ops(requests) == [i \in 1..Len(requests) |-> requests[i].op]

\* C21: in the order book reader the two queue reads are sequential: loadAsks
\* is issued only once loadBids has returned its slab, the two are never in
\* flight together, and after a failed loadBids no loadAsks is issued; what the
\* call returns lists the requests in the order they were issued.
C21_ReadsSequential ==
    call.fn = "order book reader"
        => /\ ~({"loadBids", "loadAsks"} \subseteq call.inFlight)
           /\ Cardinality(call.inFlight) <= 1
           /\ (\E i \in 1..Len(call.issued) : call.issued[i] = "loadAsks")
                => "loadBids" \in call.succeeded /\ "loadBids" \notin call.inFlight
           /\ "loadBids" \in call.failed
                => \A i \in 1..Len(call.issued) : call.issued[i] # "loadAsks"
           /\ pc = "returned" => Ops(call.ret.requests) = call.issued

\* The reader stopped at the read of the bids, which failed, with no read of the
\* asks issued.
C21_Witness ==
    /\ call.fn = "order book reader"
    /\ pc = "returned"
    /\ "loadBids" \in call.failed
    /\ call.issued = <<"Market.load", "loadBids">>
    /\ ~call.ret.ok

\* C22: a failed write of the store file is not escalated and changes nothing
\* on disk: main ends with the add reported as done, the in-memory store holds
\* the added market, and the store files are what they were when the
\* invocation started.
C22_SaveFailureHarmless ==
    (saves # <<>> /\ ~saves[1].written)
        => /\ pc = "done"
           /\ outcome = "added"
           /\ Has(KNOWN_MARKETS, TargetMarket(variant, args))
           /\ files = atStart

\* C22 without the file: a failed write is not escalated, main ends with the
\* add reported as done and the in-memory store holds the added market.
C22_SaveFailureNotEscalated ==
    (saves # <<>> /\ ~saves[1].written)
        => /\ pc = "done"
           /\ outcome = "added"
           /\ Has(KNOWN_MARKETS, TargetMarket(variant, args))

\* The levels of the reader's output stand one to one for the pairs getL2
\* returned, each tagged with the side.
MapsOneToOne(levels, l2, side) ==
    /\ Len(levels) = Len(l2)
    /\ \A i \in 1..Len(l2) :
        /\ levels[i].side = side
        /\ levels[i].price = l2[i][1]
        /\ levels[i].size = l2[i][2]

\* C23: when both queues have been read, getRealOrderBook returns, for each
\* side, the pairs of getL2 one to one and in their order, every bid tagged
\* 'bid' and every ask 'ask', price and size unchanged; an empty queue gives an
\* empty side and no error, and displayOrderBook then prints N/A for the best
\* price of that side, for the spread and for the spread percentage.
C23_OneToOne ==
    /\ (call.fn = "getRealOrderBook" /\ ~call.failed.bids /\ ~call.failed.asks)
          => /\ call.ret.ok
             /\ MapsOneToOne(call.ret.bids, Take(call.slabs.bids, L2Depth), "bid")
             /\ MapsOneToOne(call.ret.asks, Take(call.slabs.asks, L2Depth), "ask")
    /\ (call.fn = "displayOrderBook" /\ ~call.failed.bids /\ ~call.failed.asks)
          => /\ call.ret.ok
             /\ MapsOneToOne(call.ret.bidsShown, Take(call.slabs.bids, L2Depth), "bid")
             /\ MapsOneToOne(Reverse(call.ret.asksShown), Take(call.slabs.asks, L2Depth), "ask")
             /\ call.slabs.bids = <<>>
                  => /\ call.ret.bidsShown = <<>>
                     /\ call.ret.statsShown.bestBid = NA
                     /\ call.ret.statsShown.spread = NA
                     /\ call.ret.statsShown.spreadPercentage = NA \o <<"%">>
             /\ call.slabs.asks = <<>>
                  => /\ call.ret.asksShown = <<>>
                     /\ call.ret.statsShown.bestAsk = NA
                     /\ call.ret.statsShown.spread = NA
                     /\ call.ret.statsShown.spreadPercentage = NA \o <<"%">>

\* A book with no bids and two asks has been displayed: the best ask is
\* printed, the best bid is N/A.
C23_Witness ==
    /\ call.fn = "displayOrderBook"
    /\ call.ret.ok
    /\ call.slabs.bids = <<>>
    /\ Len(call.ret.asksShown) = 2
    /\ call.ret.asksShown[1].side = "ask"
    /\ call.ret.statsShown.bestBid = NA
    /\ call.ret.statsShown.bestAsk = <<"2",".","0","0","0","0">>

\* The call decoded the market account.
Decoded(requests) == \E i \in 1..Len(requests) : requests[i].op = "Market.load"

\* The descriptor carries the stored record's mints, tick, lot and queue
\* lengths, and the symbols the resolver gives for the stored mints.
FromStore(got, marketData, symbols, baseFetch, quoteFetch) ==
    /\ got.ok
    /\ ~Decoded(got.requests)
    /\ got.info.baseMint = marketData.baseMint
    /\ got.info.quoteMint = marketData.quoteMint
    /\ got.info.minOrderSize = marketData.minOrderSize
    /\ got.info.priceTick = marketData.priceTick
    /\ got.info.eventQueueLength = marketData.eventQueueLength
    /\ got.info.requestQueueLength = marketData.requestQueueLength
    /\ got.info.bidsLength = marketData.bidsLength
    /\ got.info.asksLength = marketData.asksLength
    /\ got.info.baseSymbol = getTokenMetadata(marketData.baseMint, symbols, baseFetch).symbol
    /\ got.info.quoteSymbol = getTokenMetadata(marketData.quoteMint, symbols, quoteFetch).symbol

\* The descriptor was decoded from the chain, with the fixed defaults.
FromChain(got) ==
    /\ Decoded(got.requests)
    /\ got.ok
         => /\ got.info.baseMint = BaseMint
            /\ got.info.quoteMint = QuoteMint
            /\ got.info.minOrderSize = 1
            /\ got.info.priceTick = <<"0",".","0","0","0","1">>
            /\ got.info.eventQueueLength = 2978
            /\ got.info.requestQueueLength = 63
            /\ got.info.bidsLength = 909
            /\ got.info.asksLength = 909

\* C24 as stated: getMarketInfo takes the cheap path exactly when the address
\* is a key of the active store's markets: it then decodes no market account;
\* for every other address it decodes the market from the chain and fills in
\* the fixed defaults.
C24_CheapPathWhenInStore ==
    call.fn = "getMarketInfo"
        => /\ call.marketAddress \in DOMAIN KNOWN_MARKETS
                => /\ call.ret.ok
                   /\ ~Decoded(call.ret.requests)
           /\ call.marketAddress \notin DOMAIN KNOWN_MARKETS => FromChain(call.ret)

\* C24 as amended: getMarketInfo takes the cheap path exactly when the active
\* store holds a record (a value that is not null) for the address: it then
\* returns the stored mints, tick, lot and queue lengths without decoding the
\* market account, with the symbols resolved anew; for every other address, one
\* whose entry is null included, it decodes the market from the chain and fills
\* in the fixed defaults.
C24_CheapPathWhenRecord ==
    call.fn = "getMarketInfo"
        => IF Has(KNOWN_MARKETS, call.marketAddress)
           THEN FromStore(call.ret, KNOWN_MARKETS[call.marketAddress], KNOWN_TOKEN_SYMBOLS,
                          call.baseFetch, call.quoteFetch)
           ELSE FromChain(call.ret)

\* The descriptor of a stored market was returned with the stored queue length
\* and with symbols from the cache, whatever the chain holds.
C24_Witness ==
    /\ call.fn = "getMarketInfo"
    /\ call.marketAddress = M1
    /\ Has(KNOWN_MARKETS, M1)
    /\ ~chain.exists
    /\ call.ret.ok
    /\ call.ret.info.eventQueueLength = 11
    /\ call.ret.info.baseSymbol = USDC
    /\ call.ret.requests = <<>>

\* The owner fetch of the detection, as main received it.
DetectReply == IF detectFetch = "error" THEN "error" ELSE "reply"

\* C25: on the same arguments, account, network outcomes and store files, and
\* apart from --version and --update, the duplicate entry point decides as
\* index.ts's main does: it ends in its first stretch exactly when that one
\* does, and with the same outcome; after the owner fetch it goes on with the
\* same identity and returns at the detection exactly when that one does; and
\* after the load of the store it goes to the same next step.
C25_EntryPointsAgree ==
    (/\ variant = "dup"
     /\ ~HasArg(args, VersionFlag, VersionShort)
     /\ ~HasArg(args, UpdateFlag, UpdateFlag))
        => /\ pc # "start"
                => /\ Entry("index", args).next = "done" <=> (pc = "done" /\ loads = <<>>
                                                               /\ detectFetch = "none")
                   /\ Entry("index", args).next = "done"
                        => outcome = Entry("index", args).outcome
           /\ detectFetch # "none"
                => LET d == detectProgram("index", DetectReply, chain,
                                          HasArg(args, SerumFlag, SerumShort))
                   IN  /\ useSerum = d.useSerum
                       /\ d.returns <=> ReturnedAtDetection
                       /\ d.returns => outcome = d.outcome
           /\ pc \in {"list", "add", "validate", "info name"} /\ report = NoReport
                => pc = Dispatch("index", args)

\* The run before this one was an add whose save wrote the file.
AddedBefore == call.fn = "main" /\ call.outcome = "added" /\ call.saves[1].written

\* C26: when the same add is run a second time, the chain being what it was,
\* the store file is left equal to what the first add wrote, and if the second
\* add ends normally the markets and the symbols in memory are those the first
\* add ended with.
C26_AddIdempotent ==
    (AddedBefore /\ pc = "done")
        => /\ files = call.files
           /\ outcome = "added"
                => /\ KNOWN_MARKETS = call.markets
                   /\ KNOWN_TOKEN_SYMBOLS = call.symbols

\* C26 for writes that run to their end or are refused before the file is
\* opened.
C26_AddIdempotentWhenWritten ==
    (AddedBefore /\ pc = "done" /\ files[call.loads[1]] # CorruptFile)
        => /\ files = call.files
           /\ outcome = "added"
                => /\ KNOWN_MARKETS = call.markets
                   /\ KNOWN_TOKEN_SYMBOLS = call.symbols

\* The entries of the store file before are in the file after: every market
\* address, and every token id with the symbol it had.
Keeps(before, after) ==
    /\ DOMAIN before.markets \subseteq DOMAIN after.markets
    /\ \A id \in DOMAIN before.symbols :
        id \in DOMAIN after.symbols /\ after.symbols[id] = before.symbols[id]

\* C27: after an add that ended normally and whose save wrote the file, every
\* market address and every token id that was in a store file when the
\* invocation started is in that file still, the token ids with their symbols,
\* whatever the file was, a file that did not parse included.
C27_StoreOnlyGrows ==
    (pc = "done" /\ outcome = "added" /\ saves # <<>> /\ saves[1].written)
        => \A p \in Programs : Keeps(atStart[p], files[p])

\* C27 for the store files that parse and hold no empty symbol.
C27_ParsedStoreOnlyGrows ==
    (/\ pc = "done"
     /\ outcome = "added"
     /\ saves # <<>>
     /\ saves[1].written
     /\ atStart[loads[1]].kind \in ParsedKinds \cup {"missing"}
     /\ \A id \in DOMAIN atStart[loads[1]].symbols : atStart[loads[1]].symbols[id] # EmptyText)
        => \A p \in Programs : Keeps(atStart[p], files[p])

\* Both processes have ended, each with its market added and its file written.
BothAdded ==
    /\ call.fn = "concurrent main"
    /\ call.pc = "done"
    /\ call.written
    /\ pc = "done"
    /\ outcome = "added"
    /\ saves # <<>>
    /\ saves[1].written
    /\ saves[1].file = OwnerProgram

\* C28: when two CLI processes each add a different market to the store of the
\* same program and both write the file, then, however their loads and saves
\* interleave, the file holds both markets once both have ended.
C28_NoLostAdd ==
    BothAdded
        => /\ files[OwnerProgram].kind = "json"
           /\ Has(files[OwnerProgram].markets, M1)
           /\ Has(files[OwnerProgram].markets, MARKET_ADDRESS)

\* C28 read as last writer wins: once both have ended, the file holds one of
\* the two processes' markets mappings, with that process's market in it.
C28_LastWriterWins ==
    BothAdded
        => \/ files[OwnerProgram].markets = KNOWN_MARKETS /\ Has(KNOWN_MARKETS, M1)
           \/ files[OwnerProgram].markets = call.markets /\ Has(call.markets, MARKET_ADDRESS)

\* The program whose id owns the account, if it is one of the two.
OwnedBy(p) == chain.exists /\ chain.owner = ProgramId(p = "Serum")

\* C29: a store file is written only by an add for a market account that the
\* file's program owns: every save goes to the owner's file, a file that
\* changed is the owner's, and a market record that is new in a file is in the
\* owner's file; this also when the owner fetch of the detection failed and
\* main went on with the identity of the --serum flag.
C29_PersistedUnderOwner ==
    /\ \A i \in 1..Len(saves) : OwnedBy(saves[i].file) /\ chain.market
    /\ \A p \in Programs :
        /\ files[p] # atStart[p] => OwnedBy(p)
        /\ (/\ Has(files[p].markets, TargetMarket(variant, args))
            /\ ~Has(atStart[p].markets, TargetMarket(variant, args)))
              => OwnedBy(p)

\* The owner fetch of the detection failed, main went on as Serum because of
\* the flag, and the market, which Serum owns, was written to the Serum file.
C29_Witness ==
    /\ detectFetch = "error"
    /\ HasArg(args, SerumFlag, SerumShort)
    /\ chain.owner = SERUM_PROGRAM_ID
    /\ saves = <<[file |-> "Serum", written |-> TRUE]>>
    /\ Has(files["Serum"].markets, M1)
    /\ ~Has(atStart["Serum"].markets, M1)

\* The owner fetch of the detection failed, main went on as OpenBook for a
\* market that Serum owns, and the add failed at the market load.
C29_FallbackRefused ==
    /\ detectFetch = "error"
    /\ ~useSerum
    /\ chain.owner = SERUM_PROGRAM_ID
    /\ chain.market
    /\ addLoad = "failed"
    /\ pc = "done"

\* The requests that read the market or its queues.
BookReads(requests) ==
    {i \in 1..Len(requests) : requests[i].op \in {"Market.load", "loadBids", "loadAsks"}}

\* C30: getOrderBook checks the owner first and against OpenBook: its first
\* request is the owner fetch, it returns a book only for an account that
\* exists and that OpenBook owns, and for an absent account or one owned by
\* Serum or by another program it fails without loading the market or reading
\* bids or asks.
C30_OwnershipFirst ==
    call.fn = "getOrderBook"
        => /\ call.ret.requests # <<>> => call.ret.requests[1].op = "getAccountInfo"
           /\ call.ret.ok => chain.exists /\ chain.owner = OPENBOOK_PROGRAM_ID
           /\ ~(chain.exists /\ chain.owner = OPENBOOK_PROGRAM_ID)
                => ~call.ret.ok /\ BookReads(call.ret.requests) = {}
           /\ call.ownerFetch = "error" => ~call.ret.ok /\ BookReads(call.ret.requests) = {}

\* getOrderBook was called for a market that Serum owns: it failed after the
\* owner fetch, its only request.
C30_Witness ==
    /\ call.fn = "getOrderBook"
    /\ call.marketAddress = M1
    /\ call.ownerFetch = "reply"
    /\ chain.owner = SERUM_PROGRAM_ID
    /\ chain.market
    /\ ~call.ret.ok
    /\ call.ret.requests = <<Request("getAccountInfo", M1)>>

====
